---- MODULE Spec2Model ----
(***************************************************************************)
(* PyGeodesy: the geodetic point base class (pygeodesy/bases.py) and the   *)
(* spherical-trigonometry LatLon (pygeodesy/sphericalTrigonometry.py).     *)
(*                                                                         *)
(* Degrees are integers.  Radians and the values of sin and cos are        *)
(* fixed-point numbers in units of 1/100.  A Python object is a record     *)
(* whose cls field names its class; an exception is a record whose exc     *)
(* field names the exception class and whose msg field is its message.     *)
(***************************************************************************)
EXTENDS Integers, Sequences, FiniteSets, TLC

VARIABLES
    p,      \* the LatLon instance whose attributes are assigned and read
    op,     \* the last operation applied to p: [name, arg]
    old,    \* p as it was before that operation
    ret,    \* what that operation returned
    call,   \* the last call of a method or function: [fn, self, args]
    res,    \* its outcome: [kind |-> "return", value] or [kind |-> "raise", exc, msg]
    log,    \* what that call did, in order: guard checks and attribute reads
    heap    \* the objects alive when calls are made on objects that may be
            \* shared: heap[k] is the object of identity k

vars == <<p, op, old, ret, call, res, log, heap>>

(***************************************************************************)
(* Numbers                                                                 *)
(***************************************************************************)

\* utils.PI, in units of 1/100
PI == 314

Abs(x) == IF x < 0 THEN -x ELSE x

Max(a, b) == IF a >= b THEN a ELSE b

\* math.radians: degrees to radians (units of 1/100)
radians(d) == (d * PI) \div 180

\* sine of x for 0 <= x <= PI (Bhaskara's rational approximation)
sin0(x) == (16 * x * (PI - x) * 100) \div (5 * PI * PI - 4 * x * (PI - x))

\* math.sin.  A float multiple k * PI of utils.PI lies just below k * pi,
\* so its sine is not zero but a value below EPS with the sign the sine has
\* just before k * pi: one unit here.  Only sin(0) is 0.
sinp(x) ==
    LET m == x % (2 * PI)
    IN  IF x = 0 THEN 0
        ELSE IF m = 0 THEN -1
        ELSE IF m <= PI THEN Max(1, sin0(m))
        ELSE -Max(1, sin0(m - PI))

sin(x) == IF x < 0 THEN -sinp(-x) ELSE sinp(x)

\* math.cos
cos(x) == sin(Abs(x) + PI \div 2)

\* float division, rounded to the nearest unit, halves away from zero
Quot(a, b) ==
    LET q == (2 * Abs(a) + Abs(b)) \div (2 * Abs(b))
    IN  IF (a < 0) # (b < 0) THEN -q ELSE q

\* the product and the quotient of two numbers in units of 1/100
Mul(a, b) == Quot(a * b, 100)
Div(a, b) == Quot(a * 100, b)

Min(a, b) == IF a <= b THEN a ELSE b

\* math.sqrt of 0 <= h <= 1
sqrt(h) == CHOOSE s \in 0..100 : s * s <= h * 100 /\ (s + 1) * (s + 1) > h * 100

\* the cosine of 0 <= t <= PI without the residue at PI / 2
cos0(t) == IF t <= PI \div 2 THEN sin0(PI \div 2 - t) ELSE -sin0(t - PI \div 2)

\* the angle in 0 .. PI / 2 of the direction (v, u), for u, v >= 0: the
\* first angle, in steps of one unit, whose direction is no lower
Atan(u, v) ==
    CHOOSE t \in 0..(PI \div 2) :
        /\ t = PI \div 2 \/ u * cos0(t) <= v * sin0(t)
        /\ t = 0 \/ u * cos0(t - 1) > v * sin0(t - 1)

\* math.atan2
atan2(y, x) ==
    IF y = 0 /\ x = 0 THEN 0
    ELSE IF y >= 0
    THEN IF x >= 0 THEN Atan(y, x) ELSE PI - Atan(y, -x)
    ELSE IF x >= 0 THEN -Atan(-y, x) ELSE -(PI - Atan(-y, -x))

\* the arguments math.acos and math.asin accept: any other is a ValueError
InDomain(c) == -100 <= c /\ c <= 100

\* math.acos of c in the domain: the first angle whose cosine is no
\* greater than c
acos(c) ==
    CHOOSE t \in 0..PI :
        /\ t = PI \/ cos0(t) <= c
        /\ t = 0 \/ cos0(t - 1) > c

\* the first angle in 0 .. PI / 2 whose sine is no less than s >= 0
Asin(s) ==
    CHOOSE t \in 0..(PI \div 2) :
        /\ t = PI \div 2 \/ sin0(t) >= s
        /\ t = 0 \/ sin0(t - 1) < s

\* math.asin of s in the domain
asin(s) == IF s < 0 THEN -Asin(-s) ELSE Asin(s)

\* math.degrees
degrees(r) == Quot(r * 180, PI)

(***************************************************************************)
(* Python values                                                           *)
(***************************************************************************)

None == [tag |-> "None"]

\* a tuple: () is Tuple(<<>>)
Tuple(items) == [tag |-> "tuple", items |-> items]

Vector3d(x, y, z) == [tag |-> "Vector3d", x |-> x, y |-> y, z |-> z]

\* Python truth value of a cache slot: None and () are both false
Truthy(v) == v.tag # "None" /\ (v.tag = "tuple" => v.items # <<>>)

(***************************************************************************)
(* LatLonHeightBase and sphericalTrigonometry.LatLon: attributes, caches   *)
(***************************************************************************)

LatSet == {-90, 0, 45}
LonSet == {-120, 0, 180}
HeightSet == {0, 10}

\* LatLonHeightBase.__init__ with numeric lat and lon; _ab and _v3d are the
\* class attributes until an instance attribute shadows them
LatLon(lat, lon, height) ==
    [cls |-> "sphericalLatLon",
     _lat |-> lat, _lon |-> lon,
     _height |-> IF height # 0 THEN height ELSE 0,
     _ab |-> Tuple(<<>>), _v3d |-> None]

\* LatLonHeightBase._update
LatLonHeightBase_update(self, updated) ==
    IF updated THEN [self EXCEPT !._ab = None] ELSE self

\* a _update that forgets the radians pair
LatLon_update_keeps_ab(self, updated) ==
    IF updated THEN [self EXCEPT !._v3d = None] ELSE self

\* a _update that ignores its argument
LatLon_update_always(self, updated) ==
    LatLonHeightBase_update([self EXCEPT !._v3d = None], TRUE)

\* sphericalTrigonometry.LatLon._update (LatLonSphericalBase inherits
\* LatLonHeightBase._update)
LatLon_update(self, updated) ==
    IF updated
    THEN LatLonHeightBase_update([self EXCEPT !._v3d = None], updated)
    ELSE self

\* a height setter that never touches the caches
height_setter_no_update(self, height) == [self EXCEPT !._height = height]

\* LatLonHeightBase.height setter
height_setter(self, height) ==
    [LatLon_update(self, height # self._height) EXCEPT !._height = height]

\* LatLonHeightBase.lat setter
lat_setter(self, lat) ==
    [LatLon_update(self, lat # self._lat) EXCEPT !._lat = lat]

\* LatLonHeightBase.lon setter
lon_setter(self, lon) ==
    [LatLon_update(self, lon # self._lon) EXCEPT !._lon = lon]

\* a to2ab that converts the point itself to radians
to2ab_in_place(self) ==
    IF ~Truthy(self._ab)
    THEN [self EXCEPT !._ab = Tuple(<<radians(self._lat), radians(self._lon)>>),
                      !._lat = radians(self._lat),
                      !._lon = radians(self._lon)]
    ELSE self

\* LatLonHeightBase.to2ab: the point after the call; the call returns its _ab
to2ab(self) ==
    IF ~Truthy(self._ab)
    THEN [self EXCEPT !._ab = Tuple(<<radians(self._lat), radians(self._lon)>>)]
    ELSE self

\* LatLonHeightBase.to3xyz: [self |-> the point after the call, xyz |-> the result]
to3xyz(self) ==
    LET s  == to2ab(self)
        a  == s._ab.items[1]
        b  == s._ab.items[2]
        ca == cos(a)
    IN  [self |-> s,
         xyz  |-> <<(ca * cos(b)) \div 100, (ca * sin(b)) \div 100, sin(a)>>]

\* LatLon.toVector3d: the point after the call; the call returns its _v3d
toVector3d(self) ==
    IF self._v3d = None
    THEN LET r == to3xyz(self)
         IN  [r.self EXCEPT !._v3d = Vector3d(r.xyz[1], r.xyz[2], r.xyz[3])]
    ELSE self

NoCall == [fn |-> "none"]
NoRes  == [kind |-> "none"]

PointInit ==
    /\ \E lat \in LatSet, lon \in LonSet, height \in HeightSet :
           p = LatLon(lat, lon, height)
    /\ op = [name |-> "init", arg |-> 0]
    /\ old = p
    /\ ret = None
    /\ call = NoCall /\ res = NoRes /\ log = <<>>
    /\ heap = <<>>

SetLat ==
    \E v \in LatSet :
        /\ p' = lat_setter(p, v)
        /\ op' = [name |-> "lat", arg |-> v]
        /\ old' = p
        /\ ret' = None
        /\ UNCHANGED <<call, res, log, heap>>

SetLon ==
    \E v \in LonSet :
        /\ p' = lon_setter(p, v)
        /\ op' = [name |-> "lon", arg |-> v]
        /\ old' = p
        /\ ret' = None
        /\ UNCHANGED <<call, res, log, heap>>

SetHeight ==
    \E v \in HeightSet :
        /\ p' = height_setter(p, v)
        /\ op' = [name |-> "height", arg |-> v]
        /\ old' = p
        /\ ret' = None
        /\ UNCHANGED <<call, res, log, heap>>

To2ab ==
    /\ p' = to2ab(p)
    /\ op' = [name |-> "to2ab", arg |-> 0]
    /\ old' = p
    /\ ret' = p'._ab
    /\ UNCHANGED <<call, res, log, heap>>

ToVector3d ==
    /\ p' = toVector3d(p)
    /\ op' = [name |-> "toVector3d", arg |-> 0]
    /\ old' = p
    /\ ret' = p'._v3d
    /\ UNCHANGED <<call, res, log, heap>>

PointNext == SetLat \/ SetLon \/ SetHeight \/ To2ab \/ ToVector3d

Spec == PointInit /\ [][PointNext]_vars

\* what the caches must hold for the coordinates lat, lon
DerivedAb(lat, lon) == Tuple(<<radians(lat), radians(lon)>>)

DerivedV3d(lat, lon) ==
    LET a == radians(lat)
        b == radians(lon)
    IN  Vector3d((cos(a) * cos(b)) \div 100, (cos(a) * sin(b)) \div 100, sin(a))

\* C1: whenever the cached radians pair or the cached vector is populated it
\* is the value derived from the current lat and lon, and every to2ab() or
\* toVector3d() read returns the value for the current coordinates
C1_CachesCurrent ==
    /\ Truthy(p._ab) => p._ab = DerivedAb(p._lat, p._lon)
    /\ Truthy(p._v3d) => p._v3d = DerivedV3d(p._lat, p._lon)
    /\ op.name = "to2ab" => ret = DerivedAb(p._lat, p._lon)
    /\ op.name = "toVector3d" => ret = DerivedV3d(p._lat, p._lon)

\* a read that refills a vector cleared by an assignment, after the
\* coordinates moved away from the ones the point was built with
C1_Witness ==
    /\ op.name = "toVector3d"
    /\ old._v3d = None /\ old._ab = None
    /\ ret = DerivedV3d(p._lat, p._lon)
    /\ ret # DerivedV3d(0, 0)

\* C2: assigning lat or lon clears both caches together when the new value
\* differs from the stored one, clears neither when it is equal, and stores
\* the assigned value either way
C2_LatLonSetter ==
    op.name \in {"lat", "lon"} =>
        LET stored == IF op.name = "lat" THEN old._lat ELSE old._lon
            now    == IF op.name = "lat" THEN p._lat ELSE p._lon
        IN  /\ now = op.arg
            /\ op.arg # stored => p._ab = None /\ p._v3d = None
            /\ op.arg = stored => p._ab = old._ab /\ p._v3d = old._v3d

C2_Witness ==
    /\ op.name = "lon" /\ op.arg # old._lon
    /\ Truthy(old._ab) /\ Truthy(old._v3d)
    /\ p._ab = None /\ p._v3d = None

\* C3 as stated: assigning height, to any value, leaves a populated radians
\* pair and a populated vector populated
C3_HeightKeepsCaches ==
    op.name = "height" =>
        /\ Truthy(old._ab) => Truthy(p._ab)
        /\ Truthy(old._v3d) => Truthy(p._v3d)

\* C3 amended: assigning a height equal to the current one leaves both caches
\* as they are; assigning a different height clears both caches; lat and lon
\* are untouched and the height afterwards is the assigned value
C3_HeightSetter ==
    op.name = "height" =>
        /\ p._height = op.arg /\ p._lat = old._lat /\ p._lon = old._lon
        /\ op.arg = old._height => p._ab = old._ab /\ p._v3d = old._v3d
        /\ op.arg # old._height => p._ab = None /\ p._v3d = None

C3_Witness ==
    /\ op.name = "height" /\ op.arg # old._height
    /\ Truthy(old._ab) /\ Truthy(old._v3d)
    /\ p._ab = None /\ p._v3d = None

(***************************************************************************)
(* Classes and instances                                                   *)
(***************************************************************************)

\* each class with its base class, its __name__ and the __module__ its
\* instances show (<<>>: the instance has no __module__ attribute)
Classes ==
    [object |->
        [base |-> "object", name |-> "object", module |-> <<>>],
     int |->
        [base |-> "object", name |-> "int", module |-> <<>>],
     LatLonHeightBase |->
        [base |-> "object", name |-> "LatLonHeightBase",
         module |-> <<"pygeodesy", "bases">>],
     LatLonSphericalBase |->
        [base |-> "LatLonHeightBase", name |-> "LatLonSphericalBase",
         module |-> <<"pygeodesy", "sphericalBase">>],
     sphericalLatLon |->
        [base |-> "LatLonSphericalBase", name |-> "LatLon",
         module |-> <<"pygeodesy", "sphericalTrigonometry">>],
     ellipsoidalLatLon |->
        [base |-> "LatLonHeightBase", name |-> "LatLon",
         module |-> <<"pygeodesy", "ellipsoidalVincenty">>]]

\* the classes of points: LatLonHeightBase and what derives from it
PointClasses ==
    {"LatLonHeightBase", "LatLonSphericalBase", "sphericalLatLon", "ellipsoidalLatLon"}

\* the classes that have the methods of sphericalTrigonometry.LatLon
SphericalClasses == {"sphericalLatLon"}

RECURSIVE Mro(_)
\* the classes cls derives from, itself included
Mro(cls) == IF cls = "object" THEN {cls} ELSE {cls} \cup Mro(Classes[cls].base)

\* isinstance(o, cls)
isinstance(o, cls) == cls \in Mro(o.cls)

\* an instance of a point class, as its constructor leaves it
New(cls, lat, lon, height) ==
    [cls |-> cls, _lat |-> lat, _lon |-> lon,
     _height |-> IF height # 0 THEN height ELSE 0,
     _ab |-> Tuple(<<>>), _v3d |-> None]

\* an int, and a plain object()
IntObj(v) == [cls |-> "int", value |-> v]
Object == [cls |-> "object"]

\* Base.classname(other)
classname(o) ==
    LET c == Classes[o.cls]
    IN  IF c.module # <<>>
        THEN c.module[Len(c.module)] \o "." \o c.name
        ELSE c.name

(***************************************************************************)
(* Outcomes of a call                                                      *)
(***************************************************************************)

Return(v) == [kind |-> "return", value |-> v]

Raise(exc, msg) == [kind |-> "raise", exc |-> exc, msg |-> msg]

Raised(r) == r.kind = "raise"

\* the attributes and methods an instance has
Attrs(o) ==
    IF o.cls \in SphericalClasses
    THEN {"lat", "lon", "height", "equals", "to2ab", "to3llh", "_alter",
          "bearingTo", "distanceTo"}
    ELSE IF o.cls \in PointClasses
    THEN {"lat", "lon", "height", "equals", "to2ab", "to3llh", "_alter"}
    ELSE IF o.cls = "int" THEN {"value"} ELSE {}

\* what o.attr raises when o has no such attribute
AttributeError(o, attr) ==
    Raise("AttributeError",
          "'" \o Classes[o.cls].name \o "' object has no attribute '" \o attr \o "'")

\* a guard that passes only when both are of the same class
others_same_class(self, other, name) ==
    IF self.cls # other.cls
    THEN Raise("TypeError",
               "type(" \o name \o ") mismatch: " \o classname(other)
                   \o " vs " \o classname(self))
    ELSE Return(None)

\* Base.others
others(self, other, name) ==
    IF ~(isinstance(self, other.cls) \/ isinstance(other, self.cls))
    THEN Raise("TypeError",
               "type(" \o name \o ") mismatch: " \o classname(other)
                   \o " vs " \o classname(self))
    ELSE Return(None)

(***************************************************************************)
(* A call in progress: its outcome so far and what it has done             *)
(***************************************************************************)

\* Python values returned by the calls
Bool(b) == [tag |-> "bool", v |-> b]
Num(n) == [tag |-> "num", v |-> n]
\* a float or a point whose arithmetic is not carried out here
Computed(by) == [tag |-> "computed", by |-> by]

\* the pieces of a run: the outcome and the events, in order
Run(r, events) == [res |-> r, log |-> events]

\* statement a, then statement b unless a raised
Then(a, b) ==
    IF Raised(a.res) THEN a ELSE [res |-> b.res, log |-> a.log \o b.log]

\* self.others(other, name=name): role names the parameter that was checked
Guard(self, other, name) ==
    Run(others(self, other, name), <<[ev |-> "others", name |-> name]>>)

\* o.attr, or the lookup of method o.attr: role names the parameter o
GetAttr(o, role, attr) ==
    Run(IF attr \in Attrs(o) THEN Return(None) ELSE AttributeError(o, attr),
        <<[ev |-> "read", role |-> role, attr |-> attr]>>)

\* utils.EPS and utils.EPS1 on the grid of 1/100: the residues of sin and
\* cos at the multiples of PI / 2 (one unit) are below EPS
EPS == 2
EPS1 == 100 - EPS

\* utils.wrap180: degrees wrapped to (-180, 180]
wrap180(d) ==
    LET m == d % 360
    IN  IF m > 180 THEN m - 360 ELSE m

\* utils.wrap90: degrees wrapped to (-90, 90]
wrap90(d) ==
    LET m == d % 180
    IN  IF m > 90 THEN m - 180 ELSE m

\* utils.wrapPI: radians wrapped to (-PI, PI]
wrapPI(x) ==
    LET m == x % (2 * PI)
    IN  IF m > PI THEN m - 2 * PI ELSE m

\* utils.degrees90 and utils.degrees180: radians to wrapped degrees
degrees90(r) == wrap90(degrees(r))
degrees180(r) == wrap180(degrees(r))

\* utils.hsin: the haversine, sin(x / 2) squared
hsin(x) ==
    LET s == sin(Quot(x, 2))
    IN  Mul(s, s)

\* utils.favg: the average of a and b weighted by f (in units of 1/100)
favg(a, b, f) == a + Quot(f * (b - a), 100)

\* an equals that also compares the heights
equals_with_height(self, other, eps) ==
    Then(Guard(self, other, "other"),
    Then(GetAttr(self, "self", "lat"),
    Then(GetAttr(other, "other", "lat"),
         Run(Return(Bool(/\ self._lat = other._lat
                         /\ self._lon = other._lon
                         /\ self._height = other._height)), <<>>))))

\* a copy that hands out the point itself
copy_returns_self(self) == Run(Return(self), <<>>)

\* LatLonHeightBase.copy: topsub(lat, lon, height=height), a new instance of
\* the class of self
copy(self) ==
    Run(Return(New(self.cls, self._lat, self._lon, self._height)), <<>>)

\* LatLonHeightBase.equals
equals(self, other, eps) ==
    Then(Guard(self, other, "other"),
         IF eps # None /\ eps.v # 0 /\ eps.v > 0
         THEN Then(GetAttr(self, "self", "lat"),
              Then(GetAttr(other, "other", "lat"),
              Then(GetAttr(self, "self", "lon"),
              Then(GetAttr(other, "other", "lon"),
                   Run(Return(Bool(Max(Abs(self._lat - other._lat),
                                       Abs(self._lon - other._lon)) < eps.v)),
                       <<>>)))))
         ELSE Then(GetAttr(self, "self", "lat"),
              Then(GetAttr(other, "other", "lat"),
                   IF self._lat = other._lat
                   THEN Then(GetAttr(self, "self", "lon"),
                        Then(GetAttr(other, "other", "lon"),
                             Run(Return(Bool(self._lon = other._lon)), <<>>)))
                   ELSE Run(Return(Bool(FALSE)), <<>>))))

(***************************************************************************)
(* sphericalTrigonometry: the operations that take a second point.  The    *)
(* guards, the reads and the raises are in the order of the source; the    *)
(* trigonometry of a result is not carried out (Computed).                 *)
(***************************************************************************)

\* _Trll and _LLh, the reference instances of the two modules
_Trll == New("sphericalLatLon", 0, 0, 0)
_LLh == New("LatLonHeightBase", 0, 0, 0)

\* both points' to2ab(), self's first
Read2ab(self, selfrole, other, otherrole) ==
    Then(GetAttr(self, selfrole, "to2ab"), GetAttr(other, otherrole, "to2ab"))

\* a bearingTo that converts both points before it checks the other one
bearingTo_reads_first(self, other) ==
    Then(Read2ab(self, "self", other, "other"),
    Then(Guard(self, other, "other"),
         Run(Return(Computed("bearingTo")), <<>>)))

\* LatLon.bearingTo
bearingTo(self, other) ==
    Then(Guard(self, other, "other"),
    Then(Read2ab(self, "self", other, "other"),
         Run(Return(Computed("bearingTo")), <<>>)))

\* LatLon.crossingParallels
crossingParallels(self, other, lat) ==
    Then(Guard(self, other, "other"),
    Then(Read2ab(self, "self", other, "other"),
         Run(Return(Computed("crossingParallels")), <<>>)))

\* a _haversine3 whose except clause always takes the angle for 0
HaversineAngle_zero(h) ==
    IF h < 0 \/ h > 100
    THEN 0
    ELSE atan2(sqrt(h), sqrt(100 - h)) * 2

\* the angle of _haversine3 for the haversine h: 0 or PI where the square
\* roots fail
HaversineAngle(h) ==
    IF h < 0 \/ h > 100
    THEN (IF h < 50 THEN 0 ELSE PI)
    ELSE atan2(sqrt(h), sqrt(100 - h)) * 2

\* _haversine3: the angular distance and the two cosines
_haversine3(a2, a1, b21) ==
    <<HaversineAngle(hsin(a2 - a1) + Mul(Mul(cos(a1), cos(a2)), hsin(b21))),
      cos(a2), cos(a1)>>

\* a distanceTo by the spherical law of cosines
distanceTo_cosines(self, other, radius) ==
    Then(Guard(self, other, "other"),
    Then(Read2ab(self, "self", other, "other"),
         Run(Return(Num(acos(Min(100,
                 Mul(sin(radians(self._lat)), sin(radians(other._lat)))
                 + Mul(Mul(cos(radians(self._lat)), cos(radians(other._lat))),
                       cos(radians(other._lon) - radians(self._lon)))))
                        * radius)),
             <<>>)))

\* a distanceTo that takes the difference in longitude for the whole angle
distanceTo_flat(self, other, radius) ==
    Then(Guard(self, other, "other"),
    Then(Read2ab(self, "self", other, "other"),
         Run(Return(Num(Max(radians(other._lon) - radians(self._lon), 0) * radius)),
             <<>>)))

\* LatLon.distanceTo
distanceTo(self, other, radius) ==
    Then(Guard(self, other, "other"),
    Then(Read2ab(self, "self", other, "other"),
         LET a1 == radians(self._lat)
             b1 == radians(self._lon)
             a2 == radians(other._lat)
             b2 == radians(other._lon)
             r  == _haversine3(a2, a1, b2 - b1)[1]
         IN  Run(Return(Num(r * radius)), <<>>)))

\* LatLon.crossTrackDistanceTo
crossTrackDistanceTo(self, start, end, radius) ==
    Then(Guard(self, start, "start"),
    Then(Guard(self, end, "end"),
    Then(GetAttr(start, "start", "distanceTo"),
    Then(distanceTo(start, self, radius),
    Then(GetAttr(start, "start", "bearingTo"),
    Then(bearingTo(start, self),
    Then(bearingTo(start, end),
         Run(Return(Computed("crossTrackDistanceTo")), <<>>))))))))

\* LatLonHeightBase._alter: reads both heights
_alter(self, selfrole, other, otherrole) ==
    Then(GetAttr(self, selfrole, "height"), GetAttr(other, otherrole, "height"))

\* an _alter that ignores the weight
AlterHeight_unweighted(self, other, f) == favg(self._height, other._height, 50)

\* LatLonHeightBase._alter: the average of both heights, weighted by f
AlterHeight(self, other, f) == favg(self._height, other._height, f)

\* a point whose lat and lon come from trigonometry that is not carried out
ComputedPoint(by, height) ==
    [tag |-> "computed", by |-> by, height |-> height]

\* intermediateTo, from the angle r between both points on: interpolation
\* on the great circle or, for points too close, the weighted average
IntermediatePoint(self, other, fraction, r) ==
    IF r > EPS
    THEN Return(ComputedPoint("intermediateTo",
                              AlterHeight(self, other, fraction)))
    ELSE Return(New("sphericalLatLon",
                    degrees90(favg(radians(self._lat), radians(other._lat),
                                   fraction)),
                    degrees180(favg(radians(self._lon), radians(other._lon),
                                    fraction)),
                    AlterHeight(self, other, fraction)))

\* an intermediateTo that interpolates at every fraction
intermediateTo_interpolates(self, other, fraction) ==
    Then(Guard(self, other, "other"),
    Then(Read2ab(self, "self", other, "other"),
    Then(_alter(self, "self", other, "other"),
         Run(IntermediatePoint(self, other, fraction,
                 _haversine3(radians(other._lat), radians(self._lat),
                             radians(other._lon) - radians(self._lon))[1]),
             <<>>))))

\* an intermediateTo that hands out the end points themselves
intermediateTo_returns_end(self, other, fraction) ==
    Then(Guard(self, other, "other"),
         IF fraction < EPS
         THEN Then(GetAttr(self, "self", "to3llh"), Run(Return(self), <<>>))
         ELSE IF fraction > EPS1
         THEN Then(GetAttr(other, "other", "to3llh"), Run(Return(other), <<>>))
         ELSE Then(Read2ab(self, "self", other, "other"),
              Then(_alter(self, "self", other, "other"),
                   Run(IntermediatePoint(self, other, fraction,
                           _haversine3(radians(other._lat), radians(self._lat),
                                       radians(other._lon) - radians(self._lon))[1]),
                       <<>>))))

\* an intermediateTo that takes an end point at the fractions 0 and 1 only
intermediateTo_extrapolates(self, other, fraction) ==
    Then(Guard(self, other, "other"),
         IF fraction = 0
         THEN Then(GetAttr(self, "self", "to3llh"),
                   Run(Return(New("sphericalLatLon",
                                  self._lat, self._lon, self._height)), <<>>))
         ELSE IF fraction = 100
         THEN Then(GetAttr(other, "other", "to3llh"),
                   Run(Return(New("sphericalLatLon",
                                  other._lat, other._lon, other._height)), <<>>))
         ELSE Then(Read2ab(self, "self", other, "other"),
              Then(_alter(self, "self", other, "other"),
                   Run(IntermediatePoint(self, other, fraction,
                           _haversine3(radians(other._lat), radians(self._lat),
                                       radians(other._lon) - radians(self._lon))[1]),
                       <<>>))))

\* LatLon.intermediateTo
intermediateTo(self, other, fraction) ==
    Then(Guard(self, other, "other"),
         IF fraction < EPS
         THEN Then(GetAttr(self, "self", "to3llh"),
                   Run(Return(New("sphericalLatLon",
                                  self._lat, self._lon, self._height)), <<>>))
         ELSE IF fraction > EPS1
         THEN Then(GetAttr(other, "other", "to3llh"),
                   Run(Return(New("sphericalLatLon",
                                  other._lat, other._lon, other._height)), <<>>))
         ELSE Then(Read2ab(self, "self", other, "other"),
              Then(_alter(self, "self", other, "other"),
                   Run(IntermediatePoint(self, other, fraction,
                           _haversine3(radians(other._lat), radians(self._lat),
                                       radians(other._lon) - radians(self._lon))[1]),
                       <<>>))))

\* LatLon.midpointTo
midpointTo(self, other) ==
    Then(Guard(self, other, "other"),
    Then(Read2ab(self, "self", other, "other"),
    Then(_alter(self, "self", other, "other"),
         Run(Return(ComputedPoint("midpointTo", AlterHeight(self, other, 50))),
             <<>>))))

\* the ValueError of intersection
IntersectionError(what, start1, start2) ==
    Raise("ValueError",
          "intersection " \o what \o ": " \o ToString(start1) \o " vs "
              \o ToString(start2))

\* _destination2, from the latitude a3 on: the longitude and the point
DestinationPoint(a3, b, ca, sa, cr, sr, st, h) ==
    Return(New("sphericalLatLon",
               degrees90(a3),
               degrees180(b + atan2(Mul(Mul(st, sr), ca), cr - Mul(sa, sin(a3)))),
               h))

\* _destination2, from the sine s of the latitude on: asin(s)
DestinationLat(s, b, ca, sa, cr, sr, st, h) ==
    IF ~InDomain(s)
    THEN Raise("ValueError", "math domain error")
    ELSE DestinationPoint(asin(s), b, ca, sa, cr, sr, st, h)

\* _destination2: the point at angular distance r on bearing t from (a, b)
_destination2(a, b, r, t, h) ==
    DestinationLat(Mul(Mul(cos(t), sin(r)), cos(a)) + Mul(cos(r), sin(a)),
                   b, cos(a), sin(a), cos(r), sin(r), sin(t), h)

\* LatLon.destination: distance and radius in the same unit, bearing in
\* degrees
destination(self, distance, radius, bearing) ==
    Then(GetAttr(self, "self", "to2ab"),
         Run(_destination2(radians(self._lat), radians(self._lon),
                           Quot(distance * 100, radius), radians(bearing),
                           self._height),
             <<>>))

\* LatLon.greatCircle: the vector normal to the great circle through self
\* on the bearing
greatCircle(self, bearing) ==
    Then(GetAttr(self, "self", "to2ab"),
         Run(Return(Vector3d(
                 Mul(sin(radians(self._lon)), cos(radians(bearing)))
                     - Mul(Mul(cos(radians(self._lon)), sin(radians(self._lat))),
                           sin(radians(bearing))),
                 -Mul(cos(radians(self._lon)), cos(radians(bearing)))
                     - Mul(Mul(sin(radians(self._lon)), sin(radians(self._lat))),
                           sin(radians(bearing))),
                 Mul(cos(radians(self._lat)), sin(radians(bearing))))),
             <<>>))

\* an intersection whose second test for parallel paths looks at the larger
\* of the two terms
IntersectionLegs_max(start1, start2) ==
    LET a1  == radians(start1._lat)
        b1  == radians(start1._lon)
        a2  == radians(start2._lat)
        b2  == radians(start2._lon)
        hv  == _haversine3(a2, a1, b2 - b1)
        r12 == hv[1]
        ca2 == hv[2]
        ca1 == hv[3]
        sa1 == sin(a1)
        sa2 == sin(a2)
        sr12 == sin(r12)
        x1  == Mul(sr12, ca1)
        x2  == Mul(sr12, ca2)
        cr12 == cos(r12)
    IN  IF Abs(r12) < EPS
        THEN [ok |-> FALSE, res |-> IntersectionError("parallel", start1, start2)]
        ELSE IF Max(Abs(x1), Abs(x2)) < EPS
        THEN [ok |-> FALSE, res |-> IntersectionError("parallel", start1, start2)]
        ELSE IF x1 = 0 \/ x2 = 0
        THEN [ok |-> FALSE, res |-> Raise("ZeroDivisionError", "float division by zero")]
        ELSE LET c1 == Div(sa2 - Mul(sa1, cr12), x1)
                 c2 == Div(sa1 - Mul(sa2, cr12), x2)
             IN  IF ~InDomain(c1) \/ ~InDomain(c2)
                 THEN [ok |-> FALSE, res |-> Raise("ValueError", "math domain error")]
                 ELSE LET t1 == acos(c1)
                          t2 == acos(c2)
                          east == sin(b2 - b1) > 0
                      IN  [ok |-> TRUE,
                           t12 |-> IF east THEN t1 ELSE 2 * PI - t1,
                           t21 |-> IF east THEN 2 * PI - t2 ELSE t2,
                           sr12 |-> sr12, cr12 |-> cr12]

\* intersection, the bearings t12 and t21 between the starts: the angles
\* t1, t2 turned by the side start2 lies on
LegsBearings(t1, t2, east, sr12, cr12) ==
    [ok |-> TRUE,
     t12 |-> IF east THEN t1 ELSE 2 * PI - t1,
     t21 |-> IF east THEN 2 * PI - t2 ELSE t2,
     sr12 |-> sr12, cr12 |-> cr12]

\* intersection, the two acos
LegsAngles(c1, c2, east, sr12, cr12) ==
    IF ~InDomain(c1) \/ ~InDomain(c2)
    THEN [ok |-> FALSE, res |-> Raise("ValueError", "math domain error")]
    ELSE LegsBearings(acos(c1), acos(c2), east, sr12, cr12)

\* intersection, the two tests for parallel paths
LegsTerms(start1, start2, r12, sa1, sa2, sr12, cr12, x1, x2, east) ==
    IF Abs(r12) < EPS
    THEN [ok |-> FALSE, res |-> IntersectionError("parallel", start1, start2)]
    ELSE IF Min(Abs(x1), Abs(x2)) < EPS
    THEN [ok |-> FALSE, res |-> IntersectionError("parallel", start1, start2)]
    ELSE LegsAngles(Div(sa2 - Mul(sa1, cr12), x1),
                    Div(sa1 - Mul(sa2, cr12), x2), east, sr12, cr12)

\* intersection, from the result hv of _haversine3 on
LegsFrom(start1, start2, a1, a2, b21, hv) ==
    LegsTerms(start1, start2, hv[1], sin(a1), sin(a2), sin(hv[1]), cos(hv[1]),
              Mul(sin(hv[1]), hv[3]), Mul(sin(hv[1]), hv[2]), sin(b21) > 0)

\* intersection, from the radians of both starts to the bearings t12 and
\* t21 between them
IntersectionLegs(start1, start2) ==
    LegsFrom(start1, start2, radians(start1._lat), radians(start2._lat),
             radians(start2._lon) - radians(start1._lon),
             _haversine3(radians(start2._lat), radians(start1._lat),
                         radians(start2._lon) - radians(start1._lon)))

\* the angles 2-1-3 and 1-2-3 of intersection, wrapped to (-PI, PI]
IntersectionOffsets(g, bearing1, bearing2) ==
    <<wrapPI(radians(bearing1) - g.t12), wrapPI(g.t21 - radians(bearing2))>>

\* an intersection without the test for coinciding paths
IntersectionVerdict_no_infinite(sx1, sx2) ==
    IF sx1 * sx2 < 0 THEN "ambiguous" ELSE "point"

\* the tests of intersection on the sines of the two angles; the sign of
\* their float product sx3 is the sign of the exact product
IntersectionVerdict(sx1, sx2) ==
    IF sx1 = 0 /\ sx2 = 0 THEN "infinite"
    ELSE IF sx1 * sx2 < 0 THEN "ambiguous"
    ELSE "point"

\* intersection, from the angular distance r13 on: the point
IntersectionPoint(start1, start2, bearing1, r13) ==
    Then(_alter(start1, "start1", start2, "start2"),
         Run(_destination2(radians(start1._lat), radians(start1._lon),
                           r13, radians(bearing1),
                           favg(start1._height, start2._height, 50)),
             <<>>))

\* intersection, the third angle x3 and the distance r13
IntersectionAngle(start1, start2, bearing1, g, sx3, cx1, cx2, c3) ==
    IF ~InDomain(c3)
    THEN Run(Raise("ValueError", "math domain error"), <<>>)
    ELSE IntersectionPoint(start1, start2, bearing1,
                           atan2(Mul(g.sr12, sx3), cx2 + Mul(cx1, cos(acos(c3)))))

\* intersection, the tests on the sines of the two angles
IntersectionSines(start1, start2, bearing1, g, x, sx1, sx2) ==
    IF IntersectionVerdict(sx1, sx2) # "point"
    THEN Run(IntersectionError(IntersectionVerdict(sx1, sx2), start1, start2),
             <<>>)
    ELSE IntersectionAngle(start1, start2, bearing1, g,
                           Mul(sx1, sx2), cos(x[1]), cos(x[2]),
                           Mul(g.cr12, Mul(sx1, sx2)) - Mul(cos(x[2]), cos(x[1])))

\* intersection, from the bearings g between the starts on
IntersectionFrom(start1, start2, bearing1, bearing2, g, x) ==
    IF ~g.ok
    THEN Run(g.res, <<>>)
    ELSE IntersectionSines(start1, start2, bearing1, g, x, sin(x[1]), sin(x[2]))

\* an intersection that checks start2 before start1
intersection_start2_first(start1, bearing1, start2, bearing2) ==
    Then(Guard(_Trll, start2, "start2"),
    Then(Guard(_Trll, start1, "start1"),
    Then(Read2ab(start1, "start1", start2, "start2"),
         IntersectionFrom(start1, start2, bearing1, bearing2,
                          IntersectionLegs(start1, start2),
                          IntersectionOffsets(IntersectionLegs(start1, start2),
                                              bearing1, bearing2)))))

\* intersection (and LatLon.intersection, with start1 = self)
intersection(start1, bearing1, start2, bearing2) ==
    Then(Guard(_Trll, start1, "start1"),
    Then(Guard(_Trll, start2, "start2"),
    Then(Read2ab(start1, "start1", start2, "start2"),
         IntersectionFrom(start1, start2, bearing1, bearing2,
                          IntersectionLegs(start1, start2),
                          IntersectionOffsets(IntersectionLegs(start1, start2),
                                              bearing1, bearing2)))))

(***************************************************************************)
(* bases: validation of a sequence of points and the winding of a polygon  *)
(***************************************************************************)

RECURSIVE fsum(_)
\* utils.fsum: the exact sum of a list
fsum(xs) == IF xs = <<>> THEN 0 ELSE Head(xs) + fsum(Tail(xs))

\* utils.len2: the number of elements and the elements as a list
len2(pts) == <<Len(pts), pts>>

RECURSIVE OthersLoop(_, _, _)
\* the for loop of points(): self.others(p, name='points[i]') from the i-th
\* element on (i counts from 1 here, the name from 0)
OthersLoop(self, pts, i) ==
    IF i > Len(pts)
    THEN Run(Return(None), <<>>)
    ELSE Then(Guard(self, pts[i], "points[" \o ToString(i - 1) \o "]"),
              OthersLoop(self, pts, i + 1))

\* points[0].equals(points[-1]) under `closed and n > 1`
ClosingTest(pts, closed) ==
    IF closed /\ Len(pts) > 1
    THEN Then(GetAttr(pts[1], "points[0]", "equals"),
              equals(pts[1], pts[Len(pts)], None))
    ELSE Run(Return(Bool(FALSE)), <<>>)

\* a points() that keeps the closing duplicate
points_no_trim(self, pts, closed) ==
    IF Len(pts) < (IF closed THEN 3 ELSE 1)
    THEN Run(Raise("ValueError", "too few points: " \o ToString(Len(pts))), <<>>)
    ELSE Then(OthersLoop(self, pts, 1),
              Run(Return(Tuple(<<Len(pts), pts>>)), <<>>))

\* a points() that counts before it drops the closing duplicate
points_count_first(self, pts, closed) ==
    LET n0 == len2(pts)[1]
        t  == ClosingTest(pts, closed)
    IN  IF n0 < (IF closed THEN 3 ELSE 1)
        THEN Run(Raise("ValueError", "too few points: " \o ToString(n0)), <<>>)
        ELSE IF Raised(t.res) THEN t
        ELSE LET n  == IF t.res.value.v THEN n0 - 1 ELSE n0
                 ps == SubSeq(pts, 1, n)
             IN  Then(Run(Return(None), t.log),
                 Then(OthersLoop(self, ps, 1),
                      Run(Return(Tuple(<<n, ps>>)), <<>>)))

\* a points() that drops one element too many with the closing duplicate
points_trim_two(self, pts, closed) ==
    LET n0 == len2(pts)[1]
        t  == ClosingTest(pts, closed)
    IN  IF Raised(t.res) THEN t
        ELSE LET n  == IF t.res.value.v THEN n0 - 2 ELSE n0
                 ps == SubSeq(pts, 1, n)
             IN  IF n < (IF closed THEN 3 ELSE 1)
                 THEN Run(Raise("ValueError", "too few points: " \o ToString(n)),
                          t.log)
                 ELSE Then(Run(Return(None), t.log),
                      Then(OthersLoop(self, ps, 1),
                           Run(Return(Tuple(<<n, ps>>)), <<>>)))

\* a points() that checks every element before it counts
points_loop_first(self, pts, closed) ==
    LET n0 == len2(pts)[1]
        t  == ClosingTest(pts, closed)
    IN  IF Raised(t.res) THEN t
        ELSE LET n  == IF t.res.value.v THEN n0 - 1 ELSE n0
                 ps == SubSeq(pts, 1, n)
                 l  == Then(Run(Return(None), t.log), OthersLoop(self, ps, 1))
             IN  IF Raised(l.res) THEN l
                 ELSE IF n < (IF closed THEN 3 ELSE 1)
                 THEN Run(Raise("ValueError", "too few points: " \o ToString(n)),
                          l.log)
                 ELSE Then(l, Run(Return(Tuple(<<n, ps>>)), <<>>))

\* LatLonHeightBase.points
points(self, pts, closed) ==
    LET n0 == len2(pts)[1]
        t  == ClosingTest(pts, closed)
    IN  IF Raised(t.res) THEN t
        ELSE LET n  == IF t.res.value.v THEN n0 - 1 ELSE n0
                 ps == SubSeq(pts, 1, n)
             IN  IF n < (IF closed THEN 3 ELSE 1)
                 THEN Run(Raise("ValueError", "too few points: " \o ToString(n)),
                          t.log)
                 ELSE Then(Run(Return(None), t.log),
                      Then(OthersLoop(self, ps, 1),
                           Run(Return(Tuple(<<n, ps>>)), <<>>)))

\* _2xy of isclockwise: a point in flat x-y space
_2xy(q) == <<wrap180(q._lon), wrap90(q._lat)>>

RECURSIVE Segments(_, _, _, _)
\* the for loop of isclockwise: the pseudo-area of each segment from the
\* i-th point on, (x1, y1) being the point before it
Segments(pts, i, x1, y1) ==
    IF i > Len(pts)
    THEN <<>>
    ELSE LET xy == _2xy(pts[i])
         IN  <<(xy[1] - x1) * (xy[2] + y1)>>
                 \o Segments(pts, i + 1, xy[1], xy[2])

\* an isclockwise that starts at the first point and so leaves out the edge
\* from the last point back to the first
isclockwise_no_wraparound(self, pts) ==
    LET v == points(self, pts, TRUE)
    IN  IF Raised(v.res) THEN v
        ELSE LET ps == v.res.value.items[2]
                 xy == _2xy(ps[1])
                 pa == fsum(Segments(ps, 1, xy[1], xy[2]))
             IN  Run(IF pa > 0 THEN Return(Bool(TRUE))
                     ELSE IF pa < 0 THEN Return(Bool(FALSE))
                     ELSE Raise("ValueError",
                                "zero area: " \o ToString(SubSeq(ps, 1, 3))),
                     v.log)

\* an isclockwise that takes a pseudo-area of zero for clockwise
isclockwise_nonnegative(self, pts) ==
    LET v == points(self, pts, TRUE)
    IN  IF Raised(v.res) THEN v
        ELSE LET ps == v.res.value.items[2]
                 xy == _2xy(ps[Len(ps)])
                 pa == Segments(ps, 1, xy[1], xy[2])
             IN  Run(IF fsum(pa) >= 0 THEN Return(Bool(TRUE))
                     ELSE Return(Bool(FALSE)),
                     v.log)

\* LatLonHeightBase.isclockwise (and the function isclockwise, self = _LLh)
isclockwise(self, pts) ==
    LET v == points(self, pts, TRUE)
    IN  IF Raised(v.res) THEN v
        ELSE LET ps == v.res.value.items[2]
                 xy == _2xy(ps[Len(ps)])
                 pa == Segments(ps, 1, xy[1], xy[2])
             IN  Run(IF pa # <<>> /\ fsum(pa) > 0 THEN Return(Bool(TRUE))
                     ELSE IF pa # <<>> /\ fsum(pa) < 0 THEN Return(Bool(FALSE))
                     ELSE Raise("ValueError",
                                "zero area: " \o ToString(SubSeq(ps, 1, 3))),
                     v.log)

(***************************************************************************)
(* Vector3d (module vector3d): vectors in units of 1/100                   *)
(***************************************************************************)

\* utils.PI_2
PI_2 == PI \div 2

\* Vector3d.cross
cross(u, w) ==
    Vector3d(Mul(u.y, w.z) - Mul(u.z, w.y),
             Mul(u.z, w.x) - Mul(u.x, w.z),
             Mul(u.x, w.y) - Mul(u.y, w.x))

\* Vector3d.dot
dot(u, w) == Mul(u.x, w.x) + Mul(u.y, w.y) + Mul(u.z, w.z)

\* Vector3d.length: zero for the zero vector only
length(u) ==
    LET q == u.x * u.x + u.y * u.y + u.z * u.z
    IN  CHOOSE s \in 0..(Abs(u.x) + Abs(u.y) + Abs(u.z)) :
            s * s <= q /\ (s + 1) * (s + 1) > q

\* Vector3d.angleTo: the angle between two vectors, negative if vSign is
\* given and points away from their cross product
angleTo(u, w, vSign) ==
    LET x == cross(u, w)
        s == length(x)
    IN  atan2(IF vSign # None /\ dot(x, vSign) < 0 THEN -s ELSE s, dot(u, w))

\* Vector3d.sumOf
sumOf(vs) ==
    Vector3d(fsum([i \in 1..Len(vs) |-> vs[i].x]),
             fsum([i \in 1..Len(vs) |-> vs[i].y]),
             fsum([i \in 1..Len(vs) |-> vs[i].z]))

\* Vector3d.to2ll: the latitude and longitude, in degrees, of a vector
to2ll(m) ==
    <<degrees(atan2(m.z, length(Vector3d(m.x, m.y, 0)))),
      degrees(atan2(m.y, m.x))>>

(***************************************************************************)
(* LatLon.isEnclosedBy and meanOf                                          *)
(***************************************************************************)

\* the index before i around a polygon of n vertices
Before(i, n) == IF i = 1 THEN n ELSE i - 1

\* the great-circle vector of each edge: gc[i] is the one of the edge that
\* ends at vertex i, gc[1] the one from the last vertex to the first
GreatCircles(ps) ==
    [i \in 1..Len(ps) |->
        cross(toVector3d(ps[Before(i, Len(ps))])._v3d, toVector3d(ps[i])._v3d)]

\* gc[i].angleTo(v) > PI_2: True if v is on the right of the edge
OnRight(g, v) == angleTo(g, v, None) > PI_2

\* some edge has v on another side than the first edge
Outside(gc, v) == \E i \in 2..Len(gc) : OnRight(gc[i], v) # OnRight(gc[1], v)

\* some pair of consecutive great-circle vectors, the last and the first
\* included, makes a negative angle signed by v
NonConvex(gc, v) ==
    \E i \in 1..Len(gc) : angleTo(gc[Before(i, Len(gc))], gc[i], v) < 0

\* an isEnclosedBy whose side test leaves out the last edge
isEnclosedBy_skips_last(self, pts) ==
    LET r == points(self, pts, TRUE)
    IN  IF Raised(r.res) THEN r
        ELSE LET ps == r.res.value.items[2]
                 gc == GreatCircles(ps)
                 v  == toVector3d(self)._v3d
             IN  Run(IF Outside(SubSeq(gc, 1, Len(gc) - 1), v)
                     THEN Return(Bool(FALSE))
                     ELSE IF NonConvex(gc, v)
                     THEN Raise("ValueError",
                                "non-convex: " \o ToString(SubSeq(ps, 1, 3)))
                     ELSE Return(Bool(TRUE)),
                     r.log)

\* an isEnclosedBy without the test for a convex polygon
isEnclosedBy_no_convexity(self, pts) ==
    LET r == points(self, pts, TRUE)
    IN  IF Raised(r.res) THEN r
        ELSE LET ps == r.res.value.items[2]
                 gc == GreatCircles(ps)
                 v  == toVector3d(self)._v3d
             IN  Run(IF Outside(gc, v)
                     THEN Return(Bool(FALSE))
                     ELSE Return(Bool(TRUE)),
                     r.log)

\* LatLon.isEnclosedBy
isEnclosedBy(self, pts) ==
    LET r == points(self, pts, TRUE)
    IN  IF Raised(r.res) THEN r
        ELSE LET ps == r.res.value.items[2]
                 gc == GreatCircles(ps)
                 v  == toVector3d(self)._v3d
             IN  Run(IF Outside(gc, v)
                     THEN Return(Bool(FALSE))
                     ELSE IF NonConvex(gc, v)
                     THEN Raise("ValueError",
                                "non-convex: " \o ToString(SubSeq(ps, 1, 3)))
                     ELSE Return(Bool(TRUE)),
                     r.log)

RECURSIVE VectorLoop(_, _)
\* the generator consumed by sumOf: p.Vector3d() for the i-th point on
VectorLoop(ps, i) ==
    IF i > Len(ps)
    THEN Run(Return(None), <<>>)
    ELSE Then(Run(Return(None),
                  <<[ev |-> "read", role |-> "points[" \o ToString(i - 1) \o "]",
                     attr |-> "Vector3d"]>>),
              VectorLoop(ps, i + 1))

\* the point meanOf returns for the validated points ps: height is None or
\* a number
MeanPoint(ps, height) ==
    LET m  == sumOf([i \in 1..Len(ps) |-> toVector3d(ps[i])._v3d])
        ll == to2ll(m)
    IN  IF height = None /\ Len(ps) = 0
        THEN Raise("ZeroDivisionError", "float division by zero")
        ELSE Return(New("sphericalLatLon", ll[1], ll[2],
                        IF height = None
                        THEN Quot(fsum([i \in 1..Len(ps) |-> ps[i]._height]), Len(ps))
                        ELSE height.v))

\* a meanOf that takes a list of no points as it comes
meanOf_allows_empty(pts, height) ==
    LET r == IF pts = <<>>
             THEN Run(Return(Tuple(<<0, pts>>)), <<>>)
             ELSE points(_Trll, pts, FALSE)
    IN  IF Raised(r.res) THEN r
        ELSE LET ps == r.res.value.items[2]
             IN  Then(Run(Return(None), r.log),
                 Then(VectorLoop(ps, 1), Run(MeanPoint(ps, height), <<>>)))

\* meanOf
meanOf(pts, height) ==
    LET r == points(_Trll, pts, FALSE)
    IN  IF Raised(r.res) THEN r
        ELSE LET ps == r.res.value.items[2]
             IN  Then(Run(Return(None), r.log),
                 Then(VectorLoop(ps, 1), Run(MeanPoint(ps, height), <<>>)))

(***************************************************************************)
(* Calls: each action is one call, with its arguments drawn from the sets  *)
(* below; call, res and log describe the last call made                    *)
(***************************************************************************)

CoordSet == {0, 1}
CallHeightSet == {0, 5}

PointsOf(cls) ==
    {New(cls, lat, lon, h) : lat \in CoordSet, lon \in CoordSet, h \in CallHeightSet}

\* instances of sphericalTrigonometry.LatLon
SphericalPoints == PointsOf("sphericalLatLon")

\* instances of every point class
Points == UNION {PointsOf(c) : c \in PointClasses}

\* whatever a caller may pass where a point is expected
Things == Points \cup {IntObj(96), Object}

EpsSet == {None, Num(-1), Num(0), Num(1), Num(2)}

\* fractions in units of 1/100
FractionSet == {-50, 0, 1, 25, 50, 75, 99, 100, 150}

NameSet == {"other", "end", "points[0]"}

CallInit ==
    /\ p = _Trll
    /\ op = [name |-> "init", arg |-> 0]
    /\ old = p
    /\ ret = None
    /\ call = NoCall /\ res = NoRes /\ log = <<>>
    /\ heap = <<>>

\* the call c ran as r
Invoke(c, r) ==
    /\ call' = c
    /\ res' = r.res
    /\ log' = r.log
    /\ UNCHANGED <<p, op, old, ret, heap>>

\* a point argument of a call, with the name of its parameter
Arg(name, arg) == [name |-> name, arg |-> arg]

Others ==
    /\ call = NoCall
    /\ \E self \in Points, other \in Things, name \in NameSet :
        Invoke([fn |-> "others", self |-> self, other |-> other, name |-> name],
               Run(others(self, other, name), <<>>))

Equals ==
    /\ call = NoCall
    /\ \E self \in Points, other \in Things, eps \in EpsSet :
        Invoke([fn |-> "equals", self |-> self, eps |-> eps,
                points |-> <<Arg("other", other)>>],
               equals(self, other, eps))

BearingTo ==
    /\ call = NoCall
    /\ \E self \in SphericalPoints, other \in Things :
        Invoke([fn |-> "bearingTo", self |-> self,
                points |-> <<Arg("other", other)>>],
               bearingTo(self, other))

\* the points whose distances are taken, and the radii they are taken on
DistancePoints ==
    {New("sphericalLatLon", lat, lon, 0) : lat \in {-45, 0, 30, 90},
                                           lon \in {-120, 0, 60, 180}}

RadiusSet == {1, 6371}

DistanceTo ==
    /\ call = NoCall
    /\ \E self \in DistancePoints, other \in DistancePoints \cup Things,
          radius \in RadiusSet :
        Invoke([fn |-> "distanceTo", self |-> self, radius |-> radius,
                points |-> <<Arg("other", other)>>],
               distanceTo(self, other, radius))

\* points far from those of SphericalPoints
ApartPoints == {New("sphericalLatLon", 30, 60, h) : h \in CallHeightSet}

MidpointTo ==
    /\ call = NoCall
    /\ \E self \in SphericalPoints, other \in Things \cup ApartPoints :
        Invoke([fn |-> "midpointTo", self |-> self,
                points |-> <<Arg("other", other)>>],
               midpointTo(self, other))

IntermediateTo ==
    /\ call = NoCall
    /\ \E self \in SphericalPoints, other \in Things \cup ApartPoints, fraction \in FractionSet :
        Invoke([fn |-> "intermediateTo", self |-> self, fraction |-> fraction,
                points |-> <<Arg("other", other)>>],
               intermediateTo(self, other, fraction))

CrossingParallels ==
    /\ call = NoCall
    /\ \E self \in SphericalPoints, other \in Things, lat \in CoordSet :
        Invoke([fn |-> "crossingParallels", self |-> self, lat |-> lat,
                points |-> <<Arg("other", other)>>],
               crossingParallels(self, other, lat))

CrossTrackDistanceTo ==
    /\ call = NoCall
    /\ \E self \in SphericalPoints, start \in Things, end \in Things :
        Invoke([fn |-> "crossTrackDistanceTo", self |-> self,
                points |-> <<Arg("start", start), Arg("end", end)>>],
               crossTrackDistanceTo(self, start, end, 1))

\* the starts and the compass bearings of the paths passed to intersection
StartSet ==
    {New("sphericalLatLon", 0, 30, 0), New("sphericalLatLon", 0, 120, 0),
     New("sphericalLatLon", 30, 0, 10), New("sphericalLatLon", 60, 0, 0),
     New("sphericalLatLon", -30, 60, 0), New("sphericalLatLon", 90, 0, 0),
     New("ellipsoidalLatLon", 0, 0, 0), IntObj(96), Object}

BearingSet == {0, 45, 90, 180, 270}

Intersection ==
    /\ call = NoCall
    /\ \E start1 \in StartSet, start2 \in StartSet,
          bearing1 \in BearingSet, bearing2 \in BearingSet :
        Invoke([fn |-> "intersection", self |-> _Trll,
                bearing1 |-> bearing1, bearing2 |-> bearing2,
                points |-> <<Arg("start1", start1), Arg("start2", start2)>>],
               intersection(start1, bearing1, start2, bearing2))

\* the longest sequence of points passed to a call
MaxLen == 4

\* the elements of those sequences: spherical points on a one-degree grid,
\* one of them a second time at another height, one across the 180th
\* meridian, and two things that are no spherical points
PolyElems ==
    {New("sphericalLatLon", 0, 0, 0), New("sphericalLatLon", 0, 0, 5),
     New("sphericalLatLon", 0, 1, 0), New("sphericalLatLon", 1, 1, 0),
     New("sphericalLatLon", 1, 0, 0), New("sphericalLatLon", 1, 359, 0),
     New("ellipsoidalLatLon", 0, 0, 0), IntObj(96)}

PolySeqs == UNION {[1..n -> PolyElems] : n \in 0..MaxLen}

PointsCall ==
    /\ call = NoCall
    /\ \E self \in {_Trll, _LLh}, pts \in PolySeqs, closed \in BOOLEAN :
        Invoke([fn |-> "points", self |-> self, pts |-> pts, closed |-> closed],
               points(self, pts, closed))

IsClockwise ==
    /\ call = NoCall
    /\ \E self \in {_Trll, _LLh}, pts \in PolySeqs :
        Invoke([fn |-> "isclockwise", self |-> self, pts |-> pts, closed |-> TRUE],
               isclockwise(self, pts))

\* the longest polygon passed to isEnclosedBy
MaxSides == 4

\* the elements of those polygons: the corners of a triangle with sides of
\* sixty degrees, a point inside it that makes a polygon through it
\* non-convex, and an int
EnclosureElems ==
    {New("sphericalLatLon", 0, 0, 0), New("sphericalLatLon", 0, 60, 0),
     New("sphericalLatLon", 60, 0, 0), New("sphericalLatLon", 25, 15, 0),
     IntObj(96)}

EnclosureSeqs == UNION {[1..n -> EnclosureElems] : n \in 0..MaxSides}

\* the points tested: inside the triangle on either side of the notch, and
\* outside
EnclosurePoints ==
    {New("sphericalLatLon", 10, 10, 0), New("sphericalLatLon", 5, 40, 0),
     New("sphericalLatLon", -30, -60, 0)}

IsEnclosedBy ==
    /\ call = NoCall
    /\ \E self \in EnclosurePoints, pts \in EnclosureSeqs :
        Invoke([fn |-> "isEnclosedBy", self |-> self, pts |-> pts, closed |-> TRUE],
               isEnclosedBy(self, pts))

\* the elements of the lists passed to meanOf, and the heights asked for
MeanElems ==
    {New("sphericalLatLon", 0, 0, 0), New("sphericalLatLon", 0, 60, 10),
     New("sphericalLatLon", 60, 0, 0), IntObj(96)}

MeanSeqs == UNION {[1..n -> MeanElems] : n \in 0..MaxLen}

MeanHeights == {None, Num(0), Num(5)}

MeanOf ==
    /\ call = NoCall
    /\ \E pts \in MeanSeqs, height \in MeanHeights :
        Invoke([fn |-> "meanOf", pts |-> pts, height |-> height],
               meanOf(pts, height))

\* the haversines h for which the angle is taken: below 0, in 0 .. 1 and
\* above 1 (units of 1/100)
HaversineSet == {-50, -1, 0, 1, 25, 49, 50, 51, 99, 100, 101, 150}

\* the try statement of _haversine3 on a haversine h
Haversine3 ==
    /\ call = NoCall
    /\ \E h \in HaversineSet :
        Invoke([fn |-> "_haversine3", h |-> h],
               Run(Return(Num(HaversineAngle(h))), <<>>))

CallNext ==
    \/ Others
    \/ Equals
    \/ BearingTo
    \/ DistanceTo
    \/ MidpointTo
    \/ IntermediateTo
    \/ CrossingParallels
    \/ CrossTrackDistanceTo
    \/ Intersection
    \/ PointsCall
    \/ IsClockwise
    \/ IsEnclosedBy
    \/ MeanOf
    \/ Haversine3

SpecCall == CallInit /\ [][CallNext]_vars

(***************************************************************************)
(* Calls on objects that have an identity: heap[k] is the object k, with   *)
(* its identity in the field ref.  A call is made on objects of the heap;  *)
(* what it returns is one of them or an object the call built, which then  *)
(* joins the heap under a new identity.  After the call the attributes of  *)
(* a returned point are assigned.                                          *)
(***************************************************************************)

\* a reference to the object of identity k
Ref(k) == [tag |-> "ref", k |-> k]

\* a Python list of the objects of identities items
List(items) == [cls |-> "list", items |-> items]

\* the object o under the identity k
Stored(o, k) == o @@ [ref |-> k]

\* three points, a list of them and a list that ends with its first point
HeapInit ==
    /\ heap = <<Stored(New("sphericalLatLon", 0, 0, 0), 1),
                Stored(New("sphericalLatLon", 0, 60, 5), 2),
                Stored(New("sphericalLatLon", 60, 0, 0), 3),
                Stored(List(<<1, 2, 3>>), 4),
                Stored(List(<<1, 2, 3, 1>>), 5)>>
    /\ p = _Trll
    /\ op = [name |-> "init", arg |-> 0]
    /\ old = p
    /\ ret = None
    /\ call = NoCall /\ res = NoRes /\ log = <<>>

\* the identities of the points and of the lists
PointRefs == {k \in DOMAIN heap : heap[k].cls # "list"}
ListRefs == {k \in DOMAIN heap : heap[k].cls = "list"}

\* the objects in the list l
Elements(l) == [i \in 1..Len(heap[l].items) |-> heap[heap[l].items[i]]]

\* the heap h after to2ab() of the objects refs
Filled2ab(h, refs) ==
    [k \in DOMAIN h |-> IF k \in refs THEN to2ab(h[k]) ELSE h[k]]

\* the heap h after toVector3d() of the objects refs
FilledV3d(h, refs) ==
    [k \in DOMAIN h |-> IF k \in refs THEN toVector3d(h[k]) ELSE h[k]]

\* the heap h after a call returned the value v.  An object that was on
\* the heap already stays where it is; one that the call built joins the
\* heap: a point built by LatLon(...), with numbers for lat and lon or with
\* coordinates from trigonometry that is not carried out, and the list
\* points[:n] of the pair that points() returns
Landed(h, v) ==
    IF "ref" \in DOMAIN v THEN h
    ELSE IF "cls" \in DOMAIN v THEN Append(h, Stored(v, Len(h) + 1))
    ELSE IF v.tag = "computed" /\ "height" \in DOMAIN v
    THEN Append(h, Stored([cls |-> "sphericalLatLon", by |-> v.by,
                           _height |-> v.height,
                           _ab |-> Tuple(<<>>), _v3d |-> None], Len(h) + 1))
    ELSE IF v.tag = "tuple"
    THEN Append(h, Stored(List([i \in 1..v.items[1] |-> v.items[2][i].ref]),
                          Len(h) + 1))
    ELSE h

\* what the caller holds after a call on the heap h returned the value v
Handed(h, v) ==
    IF "ref" \in DOMAIN v THEN Ref(v.ref)
    ELSE IF "cls" \in DOMAIN v \/ (v.tag = "computed" /\ "height" \in DOMAIN v)
    THEN Ref(Len(h) + 1)
    ELSE IF v.tag = "tuple" THEN Tuple(<<v.items[1], Ref(Len(h) + 1)>>)
    ELSE v

\* the call c ran as r and left the objects it was made on as h
Perform(c, r, h) ==
    /\ heap' = IF Raised(r.res) THEN h ELSE Landed(h, r.res.value)
    /\ call' = c @@ [pre |-> heap, post |-> heap']
    /\ res' = IF Raised(r.res) THEN r.res ELSE Return(Handed(h, r.res.value))
    /\ log' = r.log
    /\ UNCHANGED <<p, op, old, ret>>

\* to2ab() of a point of the heap
HeapTo2ab ==
    /\ call = NoCall
    /\ \E k \in PointRefs : heap' = Filled2ab(heap, {k})
    /\ UNCHANGED <<p, op, old, ret, call, res, log>>

\* toVector3d() of a point of the heap
HeapToVector3d ==
    /\ call = NoCall
    /\ \E k \in PointRefs : heap' = FilledV3d(heap, {k})
    /\ UNCHANGED <<p, op, old, ret, call, res, log>>

HeapBearingTo ==
    /\ call = NoCall
    /\ \E s \in PointRefs, o \in PointRefs :
        Perform([fn |-> "bearingTo", self |-> s, others |-> <<o>>],
                bearingTo(heap[s], heap[o]), Filled2ab(heap, {s, o}))

HeapDistanceTo ==
    /\ call = NoCall
    /\ \E s \in PointRefs, o \in PointRefs :
        Perform([fn |-> "distanceTo", self |-> s, others |-> <<o>>],
                distanceTo(heap[s], heap[o], 6371), Filled2ab(heap, {s, o}))

HeapDestination ==
    /\ call = NoCall
    /\ \E s \in PointRefs, distance \in {0, 1000}, bearing \in BearingSet :
        Perform([fn |-> "destination", self |-> s, others |-> <<>>],
                destination(heap[s], distance, 6371, bearing),
                Filled2ab(heap, {s}))

HeapMidpointTo ==
    /\ call = NoCall
    /\ \E s \in PointRefs, o \in PointRefs :
        Perform([fn |-> "midpointTo", self |-> s, others |-> <<o>>],
                midpointTo(heap[s], heap[o]), Filled2ab(heap, {s, o}))

HeapIntermediateTo ==
    /\ call = NoCall
    /\ \E s \in PointRefs, o \in PointRefs, fraction \in FractionSet :
        Perform([fn |-> "intermediateTo", self |-> s, others |-> <<o>>,
                 fraction |-> fraction],
                intermediateTo(heap[s], heap[o], fraction),
                IF fraction < EPS \/ fraction > EPS1
                THEN heap
                ELSE Filled2ab(heap, {s, o}))

HeapGreatCircle ==
    /\ call = NoCall
    /\ \E s \in PointRefs, bearing \in BearingSet :
        Perform([fn |-> "greatCircle", self |-> s, others |-> <<>>],
                greatCircle(heap[s], bearing), Filled2ab(heap, {s}))

HeapCrossingParallels ==
    /\ call = NoCall
    /\ \E s \in PointRefs, o \in PointRefs :
        Perform([fn |-> "crossingParallels", self |-> s, others |-> <<o>>],
                crossingParallels(heap[s], heap[o], 30), Filled2ab(heap, {s, o}))

HeapCrossTrackDistanceTo ==
    /\ call = NoCall
    /\ \E s \in PointRefs, start \in PointRefs, end \in PointRefs :
        Perform([fn |-> "crossTrackDistanceTo", self |-> s,
                 others |-> <<start, end>>],
                crossTrackDistanceTo(heap[s], heap[start], heap[end], 6371),
                Filled2ab(heap, {s, start, end}))

HeapIntersection ==
    /\ call = NoCall
    /\ \E s1 \in PointRefs, s2 \in PointRefs,
          b1 \in BearingSet, b2 \in BearingSet :
        Perform([fn |-> "intersection", self |-> s1, others |-> <<s2>>],
                intersection(heap[s1], b1, heap[s2], b2),
                Filled2ab(heap, {s1, s2}))

HeapIsEnclosedBy ==
    /\ call = NoCall
    /\ \E s \in PointRefs, l \in ListRefs :
        Perform([fn |-> "isEnclosedBy", self |-> s, others |-> <<l>>],
                isEnclosedBy(heap[s], Elements(l)),
                IF Raised(points(heap[s], Elements(l), TRUE).res)
                THEN heap
                ELSE FilledV3d(heap, {s} \cup {heap[l].items[i] :
                         i \in 1..points(heap[s], Elements(l), TRUE)
                                      .res.value.items[1]}))

HeapMeanOf ==
    /\ call = NoCall
    /\ \E l \in ListRefs, height \in {None, Num(5)} :
        Perform([fn |-> "meanOf", self |-> l, others |-> <<>>],
                meanOf(Elements(l), height),
                IF Raised(points(_Trll, Elements(l), FALSE).res)
                THEN heap
                ELSE FilledV3d(heap, {heap[l].items[i] : i \in DOMAIN heap[l].items}))

HeapIsClockwise ==
    /\ call = NoCall
    /\ \E s \in PointRefs, l \in ListRefs :
        Perform([fn |-> "isclockwise", self |-> s, others |-> <<l>>],
                isclockwise(heap[s], Elements(l)), heap)

HeapPoints ==
    /\ call = NoCall
    /\ \E s \in PointRefs, l \in ListRefs, closed \in BOOLEAN :
        Perform([fn |-> "points", self |-> s, others |-> <<l>>],
                points(heap[s], Elements(l), closed), heap)

HeapEquals ==
    /\ call = NoCall
    /\ \E s \in PointRefs, o \in PointRefs :
        Perform([fn |-> "equals", self |-> s, others |-> <<o>>],
                equals(heap[s], heap[o], None), heap)

HeapCopy ==
    /\ call = NoCall
    /\ \E s \in PointRefs :
        Perform([fn |-> "copy", self |-> s, others |-> <<>>],
                copy(heap[s]), heap)

\* the last call returned a point, and the identity of that point
PointHanded ==
    /\ call # NoCall
    /\ ~Raised(res)
    /\ res.value.tag = "ref"
Result == res.value.k

\* result.lat = v, for a result whose lat is a number
AssignLat ==
    /\ PointHanded
    /\ "_lat" \in DOMAIN heap[Result]
    /\ \E v \in LatSet :
        heap' = [heap EXCEPT ![Result] = lat_setter(heap[Result], v)]
    /\ UNCHANGED <<p, op, old, ret, call, res, log>>

\* result.lon = v, for a result whose lon is a number
AssignLon ==
    /\ PointHanded
    /\ "_lon" \in DOMAIN heap[Result]
    /\ \E v \in LonSet :
        heap' = [heap EXCEPT ![Result] = lon_setter(heap[Result], v)]
    /\ UNCHANGED <<p, op, old, ret, call, res, log>>

\* result.height = v
AssignHeight ==
    /\ PointHanded
    /\ \E v \in HeightSet :
        heap' = [heap EXCEPT ![Result] = height_setter(heap[Result], v)]
    /\ UNCHANGED <<p, op, old, ret, call, res, log>>

HeapNext ==
    \/ HeapTo2ab
    \/ HeapToVector3d
    \/ HeapBearingTo
    \/ HeapDistanceTo
    \/ HeapDestination
    \/ HeapMidpointTo
    \/ HeapIntermediateTo
    \/ HeapGreatCircle
    \/ HeapCrossingParallels
    \/ HeapCrossTrackDistanceTo
    \/ HeapIntersection
    \/ HeapIsEnclosedBy
    \/ HeapMeanOf
    \/ HeapIsClockwise
    \/ HeapPoints
    \/ HeapEquals
    \/ HeapCopy
    \/ AssignLat
    \/ AssignLon
    \/ AssignHeight

SpecHeap == HeapInit /\ [][HeapNext]_vars

\* two instances one of whose classes derives from (or is) the other's
Compatible(a, b) == a.cls \in Mro(b.cls) \/ b.cls \in Mro(a.cls)

\* the TypeError message for parameter name, kinds k1 (other) and k2 (self)
Mismatch(name, k1, k2) == "type(" \o name \o ") mismatch: " \o k1 \o " vs " \o k2

\* the last call was equals on two points that pass the guard
EqualsOnPoints ==
    /\ call.fn = "equals"
    /\ call.points[1].arg \in Points
    /\ Compatible(call.self, call.points[1].arg)

\* C4 as stated: without a tolerance equals is exact equality of lat and lon;
\* with a tolerance eps supplied it is true iff both differences are below
\* eps; height plays no part
C4_EqualsAsStated ==
    EqualsOnPoints =>
        LET a == call.self
            b == call.points[1].arg
            dlat == Abs(a._lat - b._lat)
            dlon == Abs(a._lon - b._lon)
        IN  res = Return(Bool(IF call.eps = None
                              THEN a._lat = b._lat /\ a._lon = b._lon
                              ELSE dlat < call.eps.v /\ dlon < call.eps.v))

\* C4 amended: with a tolerance eps > 0, equals is true iff both differences
\* are below eps; with no tolerance, or one that is zero or negative, it is
\* true iff lat and lon are equal; height plays no part
C4_Equals ==
    EqualsOnPoints =>
        LET a == call.self
            b == call.points[1].arg
            dlat == Abs(a._lat - b._lat)
            dlon == Abs(a._lon - b._lon)
        IN  res = Return(Bool(IF call.eps # None /\ call.eps.v > 0
                              THEN dlat < call.eps.v /\ dlon < call.eps.v
                              ELSE a._lat = b._lat /\ a._lon = b._lon))

\* two points of different heights, one degree apart, equal within 2 degrees
C4_Witness ==
    /\ EqualsOnPoints
    /\ call.eps = Num(2)
    /\ call.self._lat # call.points[1].arg._lat
    /\ call.self._height # call.points[1].arg._height
    /\ res = Return(Bool(TRUE))

\* C5: others raises TypeError exactly when neither instance is an instance
\* of the other's class, and the message then holds the argument name, the
\* kind of other and the kind of self
C5_Others ==
    call.fn = "others" =>
        /\ Raised(res) <=> ~Compatible(call.self, call.other)
        /\ Raised(res) =>
               /\ res.exc = "TypeError"
               /\ res.msg = Mismatch(call.name, classname(call.other),
                                     classname(call.self))
        /\ ~Raised(res) => res = Return(None)
        /\ (call.other.cls = "int" /\ call.self.cls = "sphericalLatLon"
                /\ call.name = "end") =>
               res.msg = "type(end) mismatch: int vs sphericalTrigonometry.LatLon"
        /\ (call.self.cls = "LatLonHeightBase"
                /\ call.other.cls = "sphericalLatLon") => ~Raised(res)
        /\ (call.self.cls = "sphericalLatLon"
                /\ call.other.cls \in {"int", "ellipsoidalLatLon"}) => Raised(res)

\* a base-class instance checked against an instance of a derived class
\* passes, and the unrelated ellipsoidal kind is refused by name
C5_Witness ==
    /\ call.fn = "others"
    /\ call.self.cls = "sphericalLatLon"
    /\ call.other.cls = "ellipsoidalLatLon"
    /\ call.name = "points[0]"
    /\ res = Raise("TypeError",
                   "type(points[0]) mismatch: ellipsoidalVincenty.LatLon vs sphericalTrigonometry.LatLon")

BinaryOps ==
    {"equals", "bearingTo", "distanceTo", "midpointTo", "intermediateTo",
     "crossingParallels", "crossTrackDistanceTo", "intersection"}

\* the point arguments of the last call that its guard refuses
Refused == {i \in 1..Len(call.points) : ~Compatible(call.self, call.points[i].arg)}

\* C6: every operation taking a second point checks each point argument,
\* in order, before it reads any coordinate; a call with an incompatible
\* argument ends in the TypeError naming the first such argument, with
\* nothing read, and never in another exception or a result
C6_GuardFirst ==
    call.fn \in BinaryOps =>
        /\ \A k \in 1..Len(log) :
               log[k].ev = "read" =>
                   /\ k > Len(call.points)
                   /\ \A i \in 1..Len(call.points) :
                          log[i] = [ev |-> "others", name |-> call.points[i].name]
        /\ Refused # {} =>
               LET i == CHOOSE j \in Refused : \A m \in Refused : j <= m
               IN  /\ res = Raise("TypeError",
                                  Mismatch(call.points[i].name,
                                           classname(call.points[i].arg),
                                           classname(call.self)))
                   /\ Len(log) = i
                   /\ \A k \in 1..i :
                          log[k] = [ev |-> "others", name |-> call.points[k].name]

\* crossTrackDistanceTo(s, 96): the TypeError names end, although start and
\* the receiver could have been read
C6_Witness ==
    /\ call.fn = "crossTrackDistanceTo"
    /\ call.points[1].arg \in SphericalPoints
    /\ call.points[2].arg = IntObj(96)
    /\ res = Raise("TypeError",
                   "type(end) mismatch: int vs sphericalTrigonometry.LatLon")
    /\ log = <<[ev |-> "others", name |-> "start"], [ev |-> "others", name |-> "end"]>>

IsPoint(x) == x.cls \in PointClasses

SameLatLon(a, b) == a._lat = b._lat /\ a._lon = b._lon

\* the least number of points: 3 for a closed polygon, 1 for an open list
MinPoints(closed) == IF closed THEN 3 ELSE 1

OnSphericalPoints ==
    /\ call.fn \in {"points", "isclockwise"}
    /\ \A i \in 1..Len(call.pts) : call.pts[i].cls = "sphericalLatLon"

\* the count left after the closing duplicate, if any, is dropped
Remaining ==
    IF /\ call.closed
       /\ Len(call.pts) > 1
       /\ SameLatLon(call.pts[1], call.pts[Len(call.pts)])
    THEN Len(call.pts) - 1
    ELSE Len(call.pts)

ClosingComparable ==
    (call.closed /\ Len(call.pts) > 1) =>
        /\ IsPoint(call.pts[1])
        /\ IsPoint(call.pts[Len(call.pts)])
        /\ Compatible(call.pts[1], call.pts[Len(call.pts)])

BadElems == {i \in 1..Len(call.pts) : ~Compatible(call.self, call.pts[i])}

\* C9: points() on a sequence long enough to pass the count, one of whose
\* elements is no compatible point, fails with the TypeError that names
\* such an element as points[i], wherever it stands in the sequence
C9_TypeErrorNamesIndex ==
    (/\ call.fn = "points"
     /\ Len(call.pts) >= MinPoints(call.closed) + (IF call.closed THEN 1 ELSE 0)
     /\ BadElems # {}) =>
        /\ Raised(res)
        /\ res.exc = "TypeError"
        /\ \E i \in BadElems :
               res.msg = Mismatch("points[" \o ToString(i - 1) \o "]",
                                  classname(call.pts[i]), classname(call.self))

\* the wrapped coordinates of a point
X(q) == wrap180(q._lon)
Y(q) == wrap90(q._lat)

RECURSIVE EdgeSum(_, _)
\* the sum over the edges ending at vertices 1..i of (x2 - x1) * (y2 + y1),
\* the edge ending at vertex 1 starting at the last vertex
EdgeSum(V, i) ==
    IF i = 0
    THEN 0
    ELSE LET q2 == V[i]
             q1 == V[IF i = 1 THEN Len(V) ELSE i - 1]
         IN  (X(q2) - X(q1)) * (Y(q2) + Y(q1)) + EdgeSum(V, i - 1)

\* the polygon of the last call as validated, if it passes validation
Validated == points(call.self, call.pts, TRUE).res

\* C10: on a validated polygon isclockwise returns True iff the sum over
\* all edges, the one from the last vertex to the first included, is
\* positive, False iff it is negative, and fails with ValueError
\* 'zero area' iff it is zero
C10_IsClockwise ==
    (call.fn = "isclockwise" /\ ~Raised(Validated)) =>
        LET V == Validated.value.items[2]
            S == EdgeSum(V, Len(V))
        IN  /\ S > 0 <=> res = Return(Bool(TRUE))
            /\ S < 0 <=> res = Return(Bool(FALSE))
            /\ S = 0 <=> res = Raise("ValueError",
                                     "zero area: " \o ToString(SubSeq(V, 1, 3)))
            /\ call.pts = <<New("sphericalLatLon", 0, 0, 0),
                            New("sphericalLatLon", 0, 1, 0),
                            New("sphericalLatLon", 1, 1, 0),
                            New("sphericalLatLon", 1, 0, 0)>>
                   => res = Return(Bool(FALSE))

\* a clockwise triangle given with its closing point, one vertex of which
\* lies across the 180th meridian
C10_Witness ==
    /\ call.fn = "isclockwise"
    /\ res = Return(Bool(TRUE))
    /\ Len(call.pts) = 4
    /\ call.pts[1] = call.pts[4]
    /\ \E i \in 1..3 : call.pts[i]._lon = 359

\* the sequence of the last call holds points only, each compatible with
\* the receiver and with every other one
AllCompatiblePoints ==
    /\ \A i \in 1..Len(call.pts) :
           IsPoint(call.pts[i]) /\ Compatible(call.self, call.pts[i])
    /\ \A i, j \in 1..Len(call.pts) : Compatible(call.pts[i], call.pts[j])

\* C11: for a list P of at least 3 points whose first and last differ in
\* lat or lon, isclockwise on P followed by its first point ends as
\* isclockwise on P does: the same boolean or the same ValueError
C11_ClosingPoint ==
    (/\ call.fn = "isclockwise"
     /\ Len(call.pts) >= 3
     /\ AllCompatiblePoints
     /\ ~SameLatLon(call.pts[1], call.pts[Len(call.pts)])) =>
        isclockwise(call.self, Append(call.pts, call.pts[1])).res = res

\* an open triangle that isclockwise finds clockwise, as it does the same
\* triangle given with its closing point
C11_Witness ==
    /\ call.fn = "isclockwise"
    /\ Len(call.pts) = 3
    /\ AllCompatiblePoints
    /\ ~SameLatLon(call.pts[1], call.pts[3])
    /\ res = Return(Bool(TRUE))
    /\ isclockwise(call.self, Append(call.pts, call.pts[1])).res = Return(Bool(TRUE))

\* the fractions 0 and 1 in units of 1/100, and the point each stands for
EndFraction == {0, 100}
EndPoint == IF call.fraction = 0 THEN call.self ELSE call.points[1].arg

\* the last call was intermediateTo at fraction 0 or 1 on a point that
\* passes the guard
IntermediateAtEnd ==
    /\ call.fn = "intermediateTo"
    /\ call.fraction \in EndFraction
    /\ call.points[1].arg \in Points
    /\ Compatible(call.self, call.points[1].arg)

\* C12: intermediateTo(p, q, 0) returns a point with the lat, lon and
\* height of p and intermediateTo(p, q, 1) one with those of q; on these
\* two branches nothing is read but to3llh() of that point: no radians,
\* no height average, no computed coordinate
C12_IntermediateEnds ==
    IntermediateAtEnd =>
        /\ res = Return(New("sphericalLatLon",
                            EndPoint._lat, EndPoint._lon, EndPoint._height))
        /\ log = <<[ev |-> "others", name |-> "other"],
                   [ev |-> "read",
                    role |-> IF call.fraction = 0 THEN "self" ELSE "other",
                    attr |-> "to3llh"]>>

\* fraction 1 between two points that differ in lat, lon and height
C12_Witness ==
    /\ IntermediateAtEnd
    /\ call.fraction = 100
    /\ call.self._lat # call.points[1].arg._lat
    /\ call.self._lon # call.points[1].arg._lon
    /\ call.self._height # call.points[1].arg._height
    /\ res.value._lat = call.points[1].arg._lat
    /\ res.value._height = call.points[1].arg._height

\* the last call was intersection on two spherical points
IntersectionOnPoints ==
    /\ call.fn = "intersection"
    /\ call.points[1].arg.cls = "sphericalLatLon"
    /\ call.points[2].arg.cls = "sphericalLatLon"

Start1 == call.points[1].arg
Start2 == call.points[2].arg

\* the angular separation of the two starts
R12 ==
    _haversine3(radians(Start2._lat), radians(Start1._lat),
                radians(Start2._lon) - radians(Start1._lon))[1]

\* sin(r12) * cos(lat) of a start
PoleTerm(start) == Mul(sin(R12), cos(radians(start._lat)))

\* the starts are coincident, or the term of one of them is within EPS of 0
Degenerate ==
    \/ Abs(R12) < EPS
    \/ Abs(PoleTerm(Start1)) < EPS
    \/ Abs(PoleTerm(Start2)) < EPS

AtPole(start) == Abs(start._lat) = 90

\* C13: intersection fails with the ValueError 'parallel', whatever the
\* bearings, when the two starts are coincident (their angular separation
\* is within EPS of 0, as it is for two starts of the same lat and lon) and
\* when sin(r12) * cos(lat) of either start is within EPS of 0 (as it is
\* for a start at a pole); no point is returned
C13_Parallel ==
    IntersectionOnPoints =>
        /\ Degenerate => res = IntersectionError("parallel", Start1, Start2)
        /\ SameLatLon(Start1, Start2) => Abs(R12) < EPS
        /\ (AtPole(Start1) \/ AtPole(Start2)) => Degenerate

\* a start at the north pole and one on the equator, a quarter circle apart
C13_Witness ==
    /\ IntersectionOnPoints
    /\ AtPole(Start1) /\ ~AtPole(Start2)
    /\ Abs(R12) >= EPS
    /\ call.bearing1 = 180 /\ call.bearing2 = 0
    /\ res = IntersectionError("parallel", Start1, Start2)

\* the bearings between the starts and the two angles of the last call
Legs == IntersectionLegs(Start1, Start2)
Offsets == IntersectionOffsets(Legs, call.bearing1, call.bearing2)

\* the last call was intersection on two spherical points and came to
\* compute the two angles
OffsetsComputed == IntersectionOnPoints /\ ~Degenerate /\ Legs.ok

Opposite(o) == (o[1] < 0 /\ o[2] > 0) \/ (o[1] > 0 /\ o[2] < 0)

\* the call returned a point
PointReturned == ~Raised(res) /\ res.value.cls = "sphericalLatLon"

\* two starts on one meridian, neither at a pole: the bearing from the
\* southern one to the northern one is 0, the bearing back is 180, and the
\* two angles of the last call follow in degrees
SameMeridian == Start1._lon = Start2._lon /\ Start1._lat # Start2._lat
Bearing12 == IF Start2._lat > Start1._lat THEN 0 ELSE 180
Bearing21 == 180 - Bearing12
MeridianOffsets ==
    <<wrap180(call.bearing1 - Bearing12), wrap180(Bearing21 - call.bearing2)>>

\* C15: for starts that are not degenerate, intersection fails with the
\* ValueError 'ambiguous' exactly when the two angles have strictly
\* opposite signs, and returns a point when they have the same sign or
\* just one of them is zero.  For two starts on one meridian the angles
\* are known from the bearings alone; for any other pair they are the
\* ones the call computes
C15_Ambiguous ==
    (IntersectionOnPoints /\ ~Degenerate) =>
        /\ SameMeridian =>
               /\ Opposite(MeridianOffsets) =>
                      res = IntersectionError("ambiguous", Start1, Start2)
               /\ MeridianOffsets[1] * MeridianOffsets[2] > 0 => PointReturned
        /\ ~SameMeridian =>
               /\ Legs.ok
               /\ res = IntersectionError("ambiguous", Start1, Start2)
                      <=> Opposite(Offsets)
               /\ (~Opposite(Offsets) /\ Offsets # <<0, 0>>) => PointReturned

\* the same for the calls that come to compute the two angles
ComputedAnglesDecide ==
    OffsetsComputed =>
        /\ res = IntersectionError("ambiguous", Start1, Start2) <=> Opposite(Offsets)
        /\ (~Opposite(Offsets) /\ Offsets # <<0, 0>>) => PointReturned

(***************************************************************************)
(* isEnclosedBy                                                            *)
(***************************************************************************)

\* the last call was an isEnclosedBy whose polygon passed validation
Enclosure == call.fn = "isEnclosedBy" /\ ~Raised(Validated)

\* the polygon as validated, and the vector of the point tested
Polygon == Validated.value.items[2]
Tested == DerivedV3d(call.self._lat, call.self._lon)

\* the normal of the edge that ends at vertex i: the cross product of the
\* vertex before i, the last one for the first, and vertex i
EdgeNormal(i) ==
    LET q1 == Polygon[IF i = 1 THEN Len(Polygon) ELSE i - 1]
        q2 == Polygon[i]
    IN  cross(DerivedV3d(q1._lat, q1._lon), DerivedV3d(q2._lat, q2._lon))

\* the side flag of edge i: the point tested is more than a right angle
\* away from the edge's normal
SideFlag(i) == angleTo(EdgeNormal(i), Tested, None) > PI_2

\* some edge's flag differs from the one of the first edge
FlagsDisagree == \E i \in 1..Len(Polygon) : SideFlag(i) # SideFlag(1)

\* the angle from the normal before the i-th to the i-th, signed by the
\* point tested
SignedAngle(i) ==
    angleTo(EdgeNormal(IF i = 1 THEN Len(Polygon) ELSE i - 1), EdgeNormal(i),
            Tested)

\* some pair of consecutive normals makes a negative signed angle
NegativeAngle == \E i \in 1..Len(Polygon) : SignedAngle(i) < 0

NonConvexError ==
    Raise("ValueError", "non-convex: " \o ToString(SubSeq(Polygon, 1, 3)))

C17_NonConvexRaises ==
    (Enclosure /\ NegativeAngle) => res = NonConvexError

\* what the convexity test does decide: with all side flags in agreement the
\* call fails with ValueError 'non-convex' exactly when some signed angle
\* is negative
ConvexityAfterSides ==
    (Enclosure /\ ~FlagsDisagree) => (NegativeAngle <=> res = NonConvexError)

\* a polygon with a notch, the point tested on one side of all its edges
NotchRaises ==
    /\ Enclosure
    /\ Len(Polygon) = 4
    /\ ~FlagsDisagree
    /\ NegativeAngle
    /\ res = NonConvexError

\* C18: isEnclosedBy returns True exactly when the polygon passes
\* validation (points compatible with the receiver and with each other, at
\* least 3 of them left without a closing duplicate), every edge's side
\* flag agrees with the first edge's and no pair of consecutive edge
\* normals makes a negative signed angle
C18_Enclosed ==
    call.fn = "isEnclosedBy" =>
        (res = Return(Bool(TRUE)) <=>
            /\ AllCompatiblePoints
            /\ Remaining >= 3
            /\ ~Raised(Validated)
            /\ ~FlagsDisagree
            /\ ~NegativeAngle)

\* the triangle, given with its closing point, around the point (10, 10)
C18_Witness ==
    /\ Enclosure
    /\ call.self = New("sphericalLatLon", 10, 10, 0)
    /\ Len(call.pts) = 4
    /\ call.pts[1] = call.pts[4]
    /\ ~FlagsDisagree
    /\ ~NegativeAngle
    /\ res = Return(Bool(TRUE))

(***************************************************************************)
(* meanOf                                                                  *)
(***************************************************************************)

\* the points whose vector meanOf asked for, in order
VectorsRead ==
    SelectSeq(log, LAMBDA e : e.ev = "read" /\ e.attr = "Vector3d")

\* C19: meanOf validates its input as an open list of at least one point:
\* on an empty list it fails with ValueError, whatever the height asked
\* for, before the vector of any point is read; on a list of spherical
\* points, be it a single one or one that ends where it starts, it reads
\* the vector of every element and returns a point
C19_MeanOfEmpty ==
    call.fn = "meanOf" =>
        /\ call.pts = <<>> =>
              /\ res = Raise("ValueError", "too few points: 0")
              /\ VectorsRead = <<>>
        /\ (/\ call.pts # <<>>
            /\ \A i \in 1..Len(call.pts) : call.pts[i].cls = "sphericalLatLon") =>
              /\ ~Raised(res)
              /\ Len(VectorsRead) = Len(call.pts)

\* meanOf of no points with a height given
C19_Witness ==
    /\ call.fn = "meanOf"
    /\ call.pts = <<>>
    /\ call.height = Num(5)
    /\ res = Raise("ValueError", "too few points: 0")

(***************************************************************************)
(* distanceTo                                                              *)
(***************************************************************************)

\* the last call took the distance between two instances of LatLon
DistanceOnPoints ==
    call.fn = "distanceTo" /\ call.points[1].arg.cls = "sphericalLatLon"

\* the haversine term of from.distanceTo(to)
Haversine(from, to) ==
    LET a1 == radians(from._lat)
        a2 == radians(to._lat)
        b21 == radians(to._lon) - radians(from._lon)
    IN  hsin(a2 - a1) + Mul(Mul(cos(a1), cos(a2)), hsin(b21))

\* the term is one whose square roots fail: the angle is the fallback's
Fallback(h) == h < 0 \/ h > 100

\* C20: for two instances p, q of LatLon and every radius, p.distanceTo(q)
\* returns what q.distanceTo(p) returns, the haversine term and the choice
\* between the formula and its fallback being the same in both orders
C20_DistanceSymmetric ==
    DistanceOnPoints =>
        LET q == call.points[1].arg
        IN  /\ ~Raised(res)
            /\ distanceTo(q, call.self, call.radius).res = res
            /\ Haversine(call.self, q) = Haversine(q, call.self)
            /\ Fallback(Haversine(call.self, q)) = Fallback(Haversine(q, call.self))

\* the distance, not zero, between two points that differ in latitude and
\* in longitude
C20_Witness ==
    /\ DistanceOnPoints
    /\ call.self._lat # call.points[1].arg._lat
    /\ call.self._lon # call.points[1].arg._lon
    /\ ~Raised(res)
    /\ res.value.v > 0
    /\ distanceTo(call.points[1].arg, call.self, call.radius).res = res

\* C21: the distance from a point to itself, and to any point with the same
\* lat and lon whatever the heights of the two, is 0 on every radius
C21_DistanceToSelf ==
    (DistanceOnPoints /\ SameLatLon(call.self, call.points[1].arg)) =>
        res = Return(Num(0))

\* the distance of a point off the equator to itself
C21_Witness ==
    /\ DistanceOnPoints
    /\ call.points[1].arg = call.self
    /\ call.self._lat = 30
    /\ call.self._lon = 60
    /\ res = Return(Num(0))

\* the same for two points at one place and different heights
C21_WitnessHeights ==
    /\ DistanceOnPoints
    /\ SameLatLon(call.self, call.points[1].arg)
    /\ call.self._height # call.points[1].arg._height
    /\ res = Return(Num(0))

(***************************************************************************)
(* Errors caught and errors passed on                                      *)
(***************************************************************************)

\* one of the square roots of _haversine3 fails for the haversine h
DomainViolation(h) == h < 0 \/ 100 - h < 0

\* C24: _haversine3 never raises: where h or 1 - h is negative it returns
\* 0 if h < 0.5 and PI otherwise, elsewhere an angle in 0 .. PI; no other
\* ValueError or TypeError is caught: one raised by the validation of a
\* sequence of points or by the check of a point argument is the outcome of
\* the call that made it
C24_OnlyHaversineCatches ==
    /\ call.fn = "_haversine3" =>
          /\ ~Raised(res)
          /\ DomainViolation(call.h) =>
                res = Return(Num(IF call.h < 50 THEN 0 ELSE PI))
          /\ ~DomainViolation(call.h) =>
                (0 <= res.value.v /\ res.value.v <= PI + 1)
    /\ (call.fn \in {"isclockwise", "isEnclosedBy"} /\ Raised(Validated)) =>
          res = Validated
    /\ (call.fn = "meanOf" /\ Raised(points(_Trll, call.pts, FALSE).res)) =>
          res = points(_Trll, call.pts, FALSE).res
    /\ (/\ call.fn \in {"bearingTo", "distanceTo", "midpointTo"}
        /\ Raised(others(call.self, call.points[1].arg, "other"))) =>
          res = others(call.self, call.points[1].arg, "other")

\* a haversine above 1: the angle is PI
C24_Witness ==
    /\ call.fn = "_haversine3"
    /\ call.h = 101
    /\ res = Return(Num(PI))

\* a haversine below 0: the angle is 0
C24_WitnessBelow ==
    /\ call.fn = "_haversine3"
    /\ call.h = -1
    /\ res = Return(Num(0))

\* a TypeError of the validation that is the outcome of isEnclosedBy
C24_WitnessPassedOn ==
    /\ call.fn = "isEnclosedBy"
    /\ Raised(Validated)
    /\ Validated.exc = "TypeError"
    /\ res = Validated

(***************************************************************************)
(* Heights of computed points                                              *)
(***************************************************************************)

\* the last call was midpointTo or intermediateTo on two spherical points
BetweenPoints ==
    /\ call.fn \in {"midpointTo", "intermediateTo"}
    /\ call.points[1].arg.cls = "sphericalLatLon"

\* the weight of the other point's height in units of 1/100
Weight == IF call.fn = "midpointTo" THEN 50 ELSE call.fraction

\* intermediateTo returned a point built from the weighted average of lat
\* and lon, as it does for points too close
AveragedLatLon == "_lat" \in DOMAIN res.value

\* the height of the returned point, whichever branch built it
ResultHeight ==
    IF AveragedLatLon THEN res.value._height ELSE res.value.height

\* h is the average of the heights h1 and h2 with weight w for h2, to the
\* nearest unit
WeightedAverage(h, h1, h2, w) ==
    Abs(100 * h - ((100 - w) * h1 + w * h2)) <= 50

\* C25: the height of midpointTo is the average of both heights and the
\* height of intermediateTo at a fraction between the two short-circuits is
\* the average of both heights weighted by the fraction, on the
\* interpolation branch and on the branch for points too close
C25_WeightedHeight ==
    (BetweenPoints /\ EPS <= Weight /\ Weight <= EPS1) =>
        /\ ~Raised(res)
        /\ WeightedAverage(ResultHeight, call.self._height,
                           call.points[1].arg._height, Weight)

\* intermediateTo at a quarter between points of heights 0 and 5 that are
\* far apart: interpolation
C25_Witness ==
    /\ BetweenPoints
    /\ call.fn = "intermediateTo"
    /\ call.fraction = 25
    /\ call.self._height = 0
    /\ call.points[1].arg._height = 5
    /\ ~Raised(res)
    /\ ~AveragedLatLon
    /\ ResultHeight = 1

\* intermediateTo at three quarters between points at the same place
C25_WitnessClose ==
    /\ BetweenPoints
    /\ call.fn = "intermediateTo"
    /\ call.fraction = 75
    /\ SameLatLon(call.self, call.points[1].arg)
    /\ call.self._height = 0
    /\ call.points[1].arg._height = 5
    /\ ~Raised(res)
    /\ AveragedLatLon
    /\ ResultHeight = 4

\* midpointTo between points of heights 5 and 0
C25_WitnessMidpoint ==
    /\ BetweenPoints
    /\ call.fn = "midpointTo"
    /\ call.self._height = 5
    /\ call.points[1].arg._height = 0
    /\ ~Raised(res)
    /\ ResultHeight \in {2, 3}

(***************************************************************************)
(* Order of the failures of intersection                                   *)
(***************************************************************************)

\* the TypeError of the check of a start, if it fails
StartCheck(start, name) == others(_Trll, start, name)

\* the outcome of the last call is the same whatever the two bearings
AnyBearings ==
    \A b1 \in BearingSet, b2 \in BearingSet :
        intersection(Start1, b1, Start2, b2).res = res

\* C26: intersection fails in a fixed order: the TypeError for start1,
\* then the TypeError for start2, then 'parallel' for coincident starts and
\* for the pole degeneracy, then 'infinite', then 'ambiguous'; of several
\* failures that apply the earliest is raised, and a failed check of a
\* start ends the call before a bearing or a coordinate is read
C26_FailureOrder ==
    call.fn = "intersection" =>
        /\ Raised(StartCheck(Start1, "start1")) =>
              /\ res = StartCheck(Start1, "start1")
              /\ log = <<[ev |-> "others", name |-> "start1"]>>
              /\ AnyBearings
        /\ (/\ ~Raised(StartCheck(Start1, "start1"))
            /\ Raised(StartCheck(Start2, "start2"))) =>
              /\ res = StartCheck(Start2, "start2")
              /\ log = <<[ev |-> "others", name |-> "start1"],
                         [ev |-> "others", name |-> "start2"]>>
              /\ AnyBearings
        /\ IntersectionOnPoints =>
              /\ Degenerate =>
                    /\ res = IntersectionError("parallel", Start1, Start2)
                    /\ AnyBearings
              /\ res = IntersectionError("infinite", Start1, Start2) =>
                    ~Degenerate
              /\ res = IntersectionError("ambiguous", Start1, Start2) =>
                    /\ ~Degenerate
                    /\ IntersectionVerdict(sin(Offsets[1]), sin(Offsets[2]))
                           # "infinite"

\* neither start is a point: the TypeError names start1
C26_Witness ==
    /\ call.fn = "intersection"
    /\ Start1 = IntObj(96)
    /\ Start2 = Object
    /\ Raised(res)
    /\ res.exc = "TypeError"
    /\ res = StartCheck(Start1, "start1")
    /\ res # StartCheck(Start2, "start2")

\* both starts at the same pole: coincident and degenerate at once
C26_WitnessParallel ==
    /\ IntersectionOnPoints
    /\ AtPole(Start1) /\ Start2 = Start1
    /\ res = IntersectionError("parallel", Start1, Start2)

\* an ellipsoidal start2 after a spherical start1
C26_WitnessSecond ==
    /\ call.fn = "intersection"
    /\ Start1.cls = "sphericalLatLon"
    /\ Start2.cls = "ellipsoidalLatLon"
    /\ res = StartCheck(Start2, "start2")

(***************************************************************************)
(* points(): the count is checked before the elements                      *)
(***************************************************************************)

\* the comparison of the first with the last element of the last call, if
\* points() makes it, and the count left after it
Closing == ClosingTest(call.pts, call.closed).res
Counted == IF Closing.value.v THEN Len(call.pts) - 1 ELSE Len(call.pts)

\* some element of the sequence fails the check the loop of points() makes
SomeIncompatible ==
    \E i \in 1..Len(call.pts) :
        Raised(others(call.self, call.pts[i], "points[" \o ToString(i - 1) \o "]"))

\* C27: when the first and last element compare without error (or are not
\* compared) and the count left is below the minimum, points() fails with
\* ValueError 'too few points: n', also on a sequence with an element
\* that the loop over the elements would reject with a TypeError
C27_CountBeforeElements ==
    (/\ call.fn = "points"
     /\ ~Raised(Closing)
     /\ Counted < MinPoints(call.closed)) =>
        res = Raise("ValueError", "too few points: " \o ToString(Counted))

\* a closed sequence of a point, an int and the point again: two are left
\* and the int among them is never checked
C27_Witness ==
    /\ call.fn = "points"
    /\ call.closed
    /\ Len(call.pts) = 3
    /\ call.pts[2] = IntObj(96)
    /\ ~Raised(Closing)
    /\ Counted = 2
    /\ SomeIncompatible
    /\ res = Raise("ValueError", "too few points: 2")
    /\ \A i \in 1..Len(log) : log[i].ev = "others" => log[i].name = "other"

\* a closed sequence of just an int
C27_WitnessSingle ==
    /\ call.fn = "points"
    /\ call.closed
    /\ call.pts = <<IntObj(96)>>
    /\ res = Raise("ValueError", "too few points: 1")

(***************************************************************************)
(* isclockwise under rotation and reversal of the vertices                 *)
(***************************************************************************)

\* the last call was isclockwise on at least 3 compatible points whose
\* first and last differ in lat or lon
ValidPolygon ==
    /\ call.fn = "isclockwise"
    /\ Len(call.pts) >= 3
    /\ AllCompatiblePoints
    /\ ~SameLatLon(call.pts[1], call.pts[Len(call.pts)])

\* the vertices ps from the (k+1)-th on, followed by the first k
Rotate(ps, k) == [i \in 1..Len(ps) |-> ps[((i + k - 1) % Len(ps)) + 1]]

\* the vertices ps in reverse order
Reverse(ps) == [i \in 1..Len(ps) |-> ps[Len(ps) + 1 - i]]

\* the ValueError of isclockwise on the vertices ps
ZeroArea(ps) ==
    Raise("ValueError", "zero area: " \o ToString(SubSeq(ps, 1, 3)))

\* the outcome r of isclockwise on the vertices ps, less the vertices the
\* message of the zero-area ValueError quotes
Outcome(r, ps) ==
    IF r = ZeroArea(ps) THEN Raise("ValueError", "zero area") ELSE r

\* the outcome of isclockwise on the vertices ps
Winding(ps) == Outcome(isclockwise(call.self, ps).res, ps)

\* the rotation of the last call's polygon by k ends with its first vertex
ClosedRotation(k) ==
    SameLatLon(Rotate(call.pts, k)[1], Rotate(call.pts, k)[Len(call.pts)])

\* C28 as stated: for a valid polygon, isclockwise on every rotation ends as
\* isclockwise on the polygon does: the same boolean, or the zero-area
\* ValueError
C28_RotationInvariant ==
    ValidPolygon =>
        \A k \in 1..(Len(call.pts) - 1) :
            Winding(Rotate(call.pts, k)) = Outcome(res, call.pts)

\* C28: for a valid polygon, isclockwise on a rotation ends as isclockwise
\* on the polygon does (the same boolean, or the zero-area ValueError),
\* but for a rotation of a 3-vertex polygon that ends with its own first
\* vertex: the polygon fails with 'zero area', the rotation with 'too few
\* points: 2'
C28_RotationAmended ==
    ValidPolygon =>
        \A k \in 1..(Len(call.pts) - 1) :
            IF Len(call.pts) = 3 /\ ClosedRotation(k)
            THEN /\ res = ZeroArea(call.pts)
                 /\ isclockwise(call.self, Rotate(call.pts, k)).res
                        = Raise("ValueError", "too few points: 2")
            ELSE Winding(Rotate(call.pts, k)) = Outcome(res, call.pts)

\* a clockwise polygon of 4 different vertices, clockwise from its third
\* vertex on as well
C28_Witness ==
    /\ ValidPolygon
    /\ Len(call.pts) = 4
    /\ \A i, j \in 1..4 : i # j => ~SameLatLon(call.pts[i], call.pts[j])
    /\ res = Return(Bool(TRUE))
    /\ Winding(Rotate(call.pts, 2)) = Return(Bool(TRUE))

\* a polygon of 4 vertices of zero area, of zero area from its second
\* vertex on as well
C28_WitnessZeroArea ==
    /\ ValidPolygon
    /\ Len(call.pts) = 4
    /\ res = ZeroArea(call.pts)
    /\ ~ClosedRotation(1)
    /\ Rotate(call.pts, 1) # call.pts
    /\ Winding(Rotate(call.pts, 1)) = Raise("ValueError", "zero area")

\* a vertex, the same vertex again and another one: zero area, and too few
\* points from the second vertex on
C28_WitnessTooFew ==
    /\ ValidPolygon
    /\ Len(call.pts) = 3
    /\ SameLatLon(call.pts[1], call.pts[2])
    /\ res = ZeroArea(call.pts)
    /\ isclockwise(call.self, Rotate(call.pts, 1)).res
           = Raise("ValueError", "too few points: 2")

\* C29: for a valid polygon on which isclockwise returns a boolean,
\* isclockwise on the reversed polygon returns the opposite boolean; where
\* it fails with the zero-area ValueError, so it does on the reversed
\* polygon
C29_ReversalFlips ==
    ValidPolygon =>
        /\ ~Raised(res) =>
              Winding(Reverse(call.pts)) = Return(Bool(~res.value.v))
        /\ res = ZeroArea(call.pts) =>
              Winding(Reverse(call.pts)) = Raise("ValueError", "zero area")

\* a counter-clockwise triangle that is clockwise when reversed
C29_Witness ==
    /\ ValidPolygon
    /\ Len(call.pts) = 3
    /\ res = Return(Bool(FALSE))
    /\ isclockwise(call.self, Reverse(call.pts)).res = Return(Bool(TRUE))

\* a polygon of zero area whose reversal has zero area
C29_WitnessZeroArea ==
    /\ ValidPolygon
    /\ res = ZeroArea(call.pts)
    /\ Reverse(call.pts) # call.pts
    /\ isclockwise(call.self, Reverse(call.pts)).res = ZeroArea(Reverse(call.pts))

(***************************************************************************)
(* intermediateTo at fractions out of range                                *)
(***************************************************************************)

\* the last call was intermediateTo on a point that passes the check
IntermediateOnPoints ==
    /\ call.fn = "intermediateTo"
    /\ IsPoint(call.points[1].arg)
    /\ ~Raised(others(call.self, call.points[1].arg, "other"))

\* a new spherical point with the lat, lon and height of q
SamePlace(q) == Return(New("sphericalLatLon", q._lat, q._lon, q._height))

\* C30: intermediateTo(p1, p2, f) returns a point with the lat, lon and
\* height of p1 for every f below EPS, the negative ones included, and one
\* with those of p2 for every f above 1 - EPS, those above 1 included
C30_FractionClamped ==
    IntermediateOnPoints =>
        /\ call.fraction < EPS => res = SamePlace(call.self)
        /\ call.fraction > EPS1 => res = SamePlace(call.points[1].arg)

\* a fraction of 1.5 between points far apart at different heights
C30_Witness ==
    /\ IntermediateOnPoints
    /\ call.fraction = 150
    /\ call.points[1].arg \in ApartPoints
    /\ call.points[1].arg._height # call.self._height
    /\ res = SamePlace(call.points[1].arg)
    /\ res # SamePlace(call.self)

\* a fraction of -0.5 between such points
C30_WitnessNegative ==
    /\ IntermediateOnPoints
    /\ call.fraction = -50
    /\ call.points[1].arg \in ApartPoints
    /\ call.points[1].arg._height # call.self._height
    /\ res = SamePlace(call.self)

(***************************************************************************)
(* What a call changes, and what an assignment to its result changes       *)
(***************************************************************************)

\* the last call was one of the operations, made on objects of the heap:
\* call.pre is the heap before it and call.post the heap after it
HeapCalled == call # NoCall /\ "pre" \in DOMAIN call

\* the point o is the point b but for derived caches that were empty in b
\* and hold in o what the coordinates of b give
OnlyCachesFilled(b, o) ==
    /\ o.cls = b.cls /\ o.ref = b.ref
    /\ o._lat = b._lat /\ o._lon = b._lon /\ o._height = b._height
    /\ \/ o._ab = b._ab
       \/ ~Truthy(b._ab) /\ o._ab = DerivedAb(b._lat, b._lon)
    /\ \/ o._v3d = b._v3d
       \/ b._v3d = None /\ o._v3d = DerivedV3d(b._lat, b._lon)

\* C22: bearingTo, distanceTo, destination, midpointTo, intermediateTo,
\* greatCircle, crossingParallels, crossTrackDistanceTo, intersection,
\* isEnclosedBy, meanOf, isclockwise, points, equals and copy leave every
\* point that existed before the call with its lat, lon and height, filling
\* at most its empty derived caches, and leave every list as it was
C22_FrameEffect ==
    HeapCalled =>
        \A k \in DOMAIN call.pre :
            IF call.pre[k].cls = "list"
            THEN call.post[k] = call.pre[k]
            ELSE OnlyCachesFilled(call.pre[k], call.post[k])

\* isEnclosedBy on the list that ends with its first point filled the
\* caches of a vertex and left its coordinates and the list alone
C22_Witness ==
    /\ HeapCalled
    /\ call.fn = "isEnclosedBy"
    /\ call.others = <<5>>
    /\ call.pre[2]._v3d = None
    /\ call.post[2]._v3d = DerivedV3d(0, 60)
    /\ call.post[2]._lon = 60
    /\ call.post[5].items = <<1, 2, 3, 1>>

\* points() on the list that ends with its first point returned a new list
\* of three and left the list of four alone
C22_WitnessList ==
    /\ HeapCalled
    /\ call.fn = "points"
    /\ call.others = <<5>>
    /\ res = Return(Tuple(<<3, Ref(6)>>))
    /\ call.post[6].items = <<1, 2, 3>>
    /\ call.post[5].items = <<1, 2, 3, 1>>

\* the operations that return a point
Producers ==
    {"copy", "destination", "midpointTo", "intermediateTo", "intersection",
     "meanOf"}

\* C23: the point that copy, destination, midpointTo, intermediateTo,
\* intersection or meanOf returns is none of the objects that existed
\* before the call, and whatever is assigned to its lat, lon or height
\* afterwards, those objects and their caches stay as the call left them;
\* the point copy returns has the lat, lon and height of its source and
\* equals it
C23_FreshResults ==
    (HeapCalled /\ call.fn \in Producers /\ ~Raised(res)) =>
        /\ res.value.tag = "ref"
        /\ Result \notin DOMAIN call.pre
        /\ \A k \in DOMAIN call.pre : heap[k] = call.post[k]
        /\ call.fn = "copy" =>
              /\ SameLatLon(call.post[Result], call.pre[call.self])
              /\ call.post[Result]._height = call.pre[call.self]._height
              /\ equals(call.pre[call.self], call.post[Result], None).res
                     = Return(Bool(TRUE))

\* intermediateTo at fraction 0 from the point at latitude 60, whose caches
\* are filled: lat of the result was assigned and the point is as before
C23_Witness ==
    /\ HeapCalled
    /\ call.fn = "intermediateTo"
    /\ call.fraction = 0
    /\ call.self = 3
    /\ call.post[Result]._lat = 60
    /\ heap[Result]._lat = 45
    /\ heap[3]._lat = 60
    /\ heap[3]._ab = DerivedAb(60, 0)

\* a copy of the point at height 5 whose height was assigned
C23_WitnessCopy ==
    /\ HeapCalled
    /\ call.fn = "copy"
    /\ call.self = 2
    /\ heap[Result]._height = 10
    /\ heap[2]._height = 5

\* the midpoint of two points whose height was assigned
C23_WitnessMidpoint ==
    /\ HeapCalled
    /\ call.fn = "midpointTo"
    /\ call.self = 1 /\ call.others = <<2>>
    /\ call.post[Result]._height \in {2, 3}
    /\ heap[Result]._height = 10
    /\ heap[1]._height = 0 /\ heap[2]._height = 5

====
